---- MODULE Spec2Model ----
(***************************************************************************)
(* Ribbon background animations of vvkmnn.github.io:                       *)
(*   js/3d-ribbon-fixed.js    ("fixed"   : lines + fill meshes, staggered) *)
(*   js/3d-ribbon-texture.js  ("texture" : one shader-striped mesh)        *)
(*   js/ribbon.js             ("canvas"  : 2D canvas, line by line)        *)
(* A RibbonManager owns one ribbon instance, feeds it one update per       *)
(* animation frame and replaces it on every window resize.                 *)
(*                                                                         *)
(* Time is kept in integer ticks.  JavaScript numbers that come out of a   *)
(* division are kept as exact fractions [n, d]: d > 0 is the rational n/d  *)
(* (in lowest terms), d = 0 is NaN (n = 0), +Infinity (n = 1) or           *)
(* -Infinity (n = -1), so that x / 0 behaves as it does in the engine.     *)
(* Vertex positions are kept as the index of the curve they were sampled   *)
(* from (generatePositions is a function of the curve and the fixed        *)
(* baseOffset of the line alone).  The vertex routines themselves are      *)
(* modelled apart, on concrete vectors with coordinates doubled, and the   *)
(* variable geometry records the last call made to one of them.  The       *)
(* variable host is the page's side of a manager: pending frame callbacks, *)
(* registered listeners, console output.  The variable gradient is the     *)
(* state of the page's gradient script (step and colorIndices), and the    *)
(* variable noise a SimplexNoise instance with the table indices of its    *)
(* last noise3D call.                                                      *)
(***************************************************************************)
EXTENDS Integers, Sequences, FiniteSets, TLC

VARIABLES variant, CONFIG, ribbon, generation, clock, disposeCount, scene,
          groups, geometry, host, gradient, noise

vars == <<variant, CONFIG, ribbon, generation, clock, disposeCount, scene,
          groups, geometry, host, gradient, noise>>

\* a page on which no gradient script runs
NoGradient == [script |-> "none"]

\* no SimplexNoise instance under observation
NoNoise == [constructed |-> FALSE]

----------------------------------------------------------------------------
(* Bounds of the model.  The CONFIG values are scaled down to ticks       *)
(* (staggerDelay: 100 ms = 4 ticks); MorphDuration is kept above 100 so    *)
(* that a whole tick lies strictly between 0.5 and 0.51 of it, and even so *)
(* that a whole tick is exactly half of it.                                *)

NumLines == 3          \* CONFIG.lineCount (8; 40 on the canvas)
PointsPerLine == 4     \* CONFIG.pointsPerLine / pointsPerCurve (150; 250)
DrawDuration == 8      \* CONFIG.drawDuration (2000 ms; 1800 ms)
MorphDuration == 102   \* CONFIG.morphDuration (2500 ms)
EraseDuration == 6     \* CONFIG.eraseDuration (canvas, 1400 ms)
StaggerDelay == 4      \* CONFIG.staggerDelay (100 ms; 60 ms)
HoldDuration == 8      \* CONFIG.holdDuration (5000 ms; 3000 ms)
NumCurves == 2         \* curves.length (8)
MaxTime == 270         \* 3D frames stop once an instance's time would pass this
MaxClock == 120        \* canvas frames stop once the page clock would pass this
MaxResizes == 2        \* resize events per run

\* Frame deltas (THREE.Clock.getDelta() * 1000, or the step between two
\* requestAnimationFrame timestamps): 0 is the first frame, StaggerDelay-sized
\* steps let every line meet the midpoint test of its morph, and a step of
\* half of MorphDuration lands on 0.5 exactly or jumps over the test.
Deltas == {0, 4, 51}

\* Steps between two requestAnimationFrame timestamps on the canvas: a frame
\* shorter than any duration and one longer than a whole line takes to draw.
CanvasDeltas == {4, 12}

Variants == {"fixed", "texture", "canvas"}

----------------------------------------------------------------------------
(* JavaScript number arithmetic.  A number is an exact fraction n/d in     *)
(* lowest terms with d > 0; d = 0 stands for NaN (n = 0), +Infinity        *)
(* (n = 1) and -Infinity (n = -1).  As in JavaScript, every operand is     *)
(* evaluated once, before the operation: the operators bind their operands *)
(* to their values (x \in {a}) and compute on those.                       *)

RECURSIVE GCD(_, _)
GCD(a, b) ==
  CHOOSE g \in {IF y = 0 THEN x ELSE GCD(y, x % y) : x \in {a}, y \in {b}} : TRUE

Abs(a) == IF a < 0 THEN -a ELSE a

Num(n) == [n |-> n, d |-> 1]

NaN == [n |-> 0, d |-> 0]

IsNaN(x) == x.d = 0 /\ x.n = 0

\* a / b for integers a, b, as IEEE division gives it
Div(a, b) ==
  CHOOSE q \in
    {IF y = 0
       THEN (IF x = 0 THEN NaN ELSE [n |-> (IF x > 0 THEN 1 ELSE -1), d |-> 0])
       ELSE LET s == IF y < 0 THEN -1 ELSE 1
            IN  CHOOSE r \in {[n |-> (s * x) \div g, d |-> (s * y) \div g] :
                                g \in {GCD(Abs(x), Abs(y))}} : TRUE
       : x \in {a}, y \in {b}} : TRUE

\* x < y, x <= y, x >= y: every comparison with NaN is false
Lt(x, y) == ~IsNaN(x) /\ ~IsNaN(y) /\ x.n * y.d < y.n * x.d
Le(x, y) == ~IsNaN(x) /\ ~IsNaN(y) /\ x.n * y.d <= y.n * x.d
Ge(x, y) == Le(y, x)
Gt(x, y) == Lt(y, x)

\* Math.min(x, y): NaN if either is NaN
MathMin(x, y) ==
  CHOOSE m \in {IF IsNaN(p) \/ IsNaN(q) THEN NaN ELSE IF Lt(q, p) THEN q ELSE p :
                  p \in {x}, q \in {y}} : TRUE

\* x * k for an integer k > 0
Times(x, k) ==
  CHOOSE m \in {IF p.d = 0 THEN p ELSE Div(p.n * k, p.d) : p \in {x}} : TRUE

\* x - y
Minus(x, y) ==
  CHOOSE m \in
    {IF IsNaN(p) \/ IsNaN(q) THEN NaN
     ELSE IF p.d = 0 /\ q.d = 0 THEN (IF p.n = q.n THEN NaN ELSE p)
     ELSE IF p.d = 0 THEN p
     ELSE IF q.d = 0 THEN [n |-> -q.n, d |-> 0]
     ELSE Div(p.n * q.d - q.n * p.d, p.d * q.d) : p \in {x}, q \in {y}} : TRUE

\* Math.floor(x): NaN and the infinities are left as they are
Floor(x) ==
  CHOOSE m \in {IF p.d = 0 THEN p ELSE Num(p.n \div p.d) : p \in {x}} : TRUE

Half == [n |-> 1, d |-> 2]

----------------------------------------------------------------------------
(* 3d-ribbon-fixed.js                                                      *)

LineIndices == 0 .. (NumLines - 1)
FillIndices == 0 .. (NumLines - 2)
TotalPoints == PointsPerLine + 1

\* Line3D constructor followed by createMesh(curves[0]): progress 0,
\* positions of curve 0, draw range (0, 0)
Line3D ==
  [drawProgress |-> Num(0), morphProgress |-> Num(0), positions |-> 0,
   drawRange |-> [start |-> Num(0), count |-> Num(0)]]

\* one fill mesh of createFillMeshes: vertices copied from its two lines
createFillMesh(lines, i) ==
  [positions |-> <<lines[i].positions, lines[i + 1].positions>>,
   drawRange |-> [start |-> Num(0), count |-> Num(0)]]

\* new Ribbon3D(scene, noise)
Ribbon3D ==
  LET lines == [i \in LineIndices |-> Line3D]
  IN  [time |-> 0, rotationTime |-> 0,
       currentCurveIndex |-> 0, nextCurveIndex |-> 1,
       phase |-> "drawing", phaseStartTime |-> 0, holdTimer |-> 0,
       lines |-> lines,
       fillMeshes |-> [i \in FillIndices |-> createFillMesh(lines, i)]]

\* lineElapsed / duration without the clamp to 1
ProgressUnclamped(lineElapsed, duration) == Div(lineElapsed, duration)

\* Math.min(1, lineElapsed / duration)
Progress(lineElapsed, duration) == MathMin(Num(1), Div(lineElapsed, duration))

\* the test that guards updatePositions / updateGeometry at the midpoint
AtMidpoint(morphProgress) ==
  Gt(morphProgress, Half) /\ Lt(morphProgress, [n |-> 51, d |-> 100])

\* the target index left equal to the current one
NextCurveStay(currentCurveIndex) == currentCurveIndex

\* the next index without the wrap to the start of the catalog
NextCurveNoWrap(currentCurveIndex) == currentCurveIndex + 1

\* (currentCurveIndex + 1) % curves.length
NextCurve(currentCurveIndex) == (currentCurveIndex + 1) % NumCurves

\* the drawing loop body with every line starting at phase entry
DrawLineNoStagger(line, i, phaseElapsed) ==
  LET drawProgress == MathMin(Num(1), Div(phaseElapsed, CONFIG.drawDuration))
  IN  [line EXCEPT
         !.drawProgress = drawProgress,
         !.drawRange = [start |-> Num(0),
                        count |-> Floor(Times(drawProgress, TotalPoints))]]

\* the drawing loop body with the stagger running from the last line to the
\* first
DrawLineReversed(line, i, phaseElapsed) ==
  LET lineStartTime == (NumLines - 1 - i) * StaggerDelay
      drawProgress == Progress(phaseElapsed - lineStartTime, CONFIG.drawDuration)
  IN  IF phaseElapsed >= lineStartTime
        THEN [line EXCEPT
                !.drawProgress = drawProgress,
                !.drawRange = [start |-> Num(0),
                               count |-> Floor(Times(drawProgress, TotalPoints))]]
        ELSE line

\* body of the drawing loop for line i
DrawLine(line, i, phaseElapsed) ==
  LET lineStartTime == i * StaggerDelay
      drawProgress == Progress(phaseElapsed - lineStartTime, CONFIG.drawDuration)
  IN  IF phaseElapsed >= lineStartTime
        THEN [line EXCEPT
                !.drawProgress = drawProgress,
                !.drawRange = [start |-> Num(0),
                               count |-> Floor(Times(drawProgress, TotalPoints))]]
        ELSE line

\* the morphing loop body with the erase half showing the erased part
\* instead of the part still to erase
MorphLineShowErased(line, i, phaseElapsed, nextCurveIndex) ==
  LET lineStartTime == i * StaggerDelay
      morphProgress == Progress(phaseElapsed - lineStartTime, CONFIG.morphDuration)
      eraseStart == Floor(Times(Times(morphProgress, 2), TotalPoints))
      drawEnd == Floor(Times(Times(Minus(morphProgress, Half), 2), TotalPoints))
  IN  IF phaseElapsed >= lineStartTime
        THEN IF Le(morphProgress, Half)
               THEN [line EXCEPT
                       !.morphProgress = morphProgress,
                       !.drawRange = [start |-> Num(0), count |-> eraseStart]]
               ELSE [line EXCEPT
                       !.morphProgress = morphProgress,
                       !.positions = IF AtMidpoint(morphProgress)
                                       THEN nextCurveIndex ELSE @,
                       !.drawRange = [start |-> Num(0), count |-> drawEnd]]
        ELSE line

\* body of the morphing loop for line i
MorphLine(line, i, phaseElapsed, nextCurveIndex) ==
  LET lineStartTime == i * StaggerDelay
      morphProgress == Progress(phaseElapsed - lineStartTime, CONFIG.morphDuration)
      eraseStart == Floor(Times(Times(morphProgress, 2), TotalPoints))
      drawEnd == Floor(Times(Times(Minus(morphProgress, Half), 2), TotalPoints))
  IN  IF phaseElapsed >= lineStartTime
        THEN IF Le(morphProgress, Half)
               THEN [line EXCEPT
                       !.morphProgress = morphProgress,
                       !.drawRange = [start |-> eraseStart,
                                      count |-> Minus(Num(TotalPoints), eraseStart)]]
               ELSE [line EXCEPT
                       !.morphProgress = morphProgress,
                       !.positions = IF AtMidpoint(morphProgress)
                                       THEN nextCurveIndex ELSE @,
                       !.drawRange = [start |-> Num(0), count |-> drawEnd]]
        ELSE line

\* the progress read from a line with the morphing formula in Holding too
FillProgressNoHold(line, phase) ==
  IF phase = "drawing" THEN line.drawProgress
  ELSE IF Le(line.morphProgress, Half)
         THEN Times(line.morphProgress, 2)
         ELSE Times(Minus(Num(1), line.morphProgress), 2)

\* the progress updateFillMeshes reads from a line in the given phase
FillProgress(line, phase) ==
  IF phase = "drawing" THEN line.drawProgress
  ELSE IF phase = "morphing"
    THEN IF Le(line.morphProgress, Half)
           THEN Times(line.morphProgress, 2)
           ELSE Times(Minus(Num(1), line.morphProgress), 2)
    ELSE Num(1)

\* updateFillMeshes: draw range of every fill mesh from its two lines
updateFillMeshes(r) ==
  [r EXCEPT !.fillMeshes =
     [i \in FillIndices |->
        LET minProgress == MathMin(FillProgress(r.lines[i], r.phase),
                                   FillProgress(r.lines[i + 1], r.phase))
            visibleQuads == Floor(Times(minProgress, PointsPerLine))
        IN  [r.fillMeshes[i] EXCEPT
               !.drawRange = [start |-> Num(0), count |-> Times(visibleQuads, 6)]]]]

\* the switch of Ribbon3D.update, after time and rotation have advanced
FixedPhaseStep(r, deltaTime) ==
  LET phaseElapsed == r.time - r.phaseStartTime
  IN  CASE r.phase = "drawing" ->
             LET lines == [i \in LineIndices |-> DrawLine(r.lines[i], i, phaseElapsed)]
             IN  IF Ge(lines[NumLines - 1].drawProgress, Num(1))
                   THEN [r EXCEPT !.lines = lines, !.phase = "holding",
                                  !.phaseStartTime = r.time, !.holdTimer = 0]
                   ELSE [r EXCEPT !.lines = lines]
        [] r.phase = "holding" ->
             IF r.holdTimer + deltaTime >= HoldDuration
               THEN [r EXCEPT !.holdTimer = @ + deltaTime,
                              !.phase = "morphing",
                              !.phaseStartTime = r.time,
                              !.nextCurveIndex = NextCurve(r.currentCurveIndex),
                              !.lines = [i \in LineIndices |->
                                           [r.lines[i] EXCEPT !.morphProgress = Num(0)]]]
               ELSE [r EXCEPT !.holdTimer = @ + deltaTime]
        [] r.phase = "morphing" ->
             LET lines == [i \in LineIndices |->
                             MorphLine(r.lines[i], i, phaseElapsed, r.nextCurveIndex)]
             IN  IF Ge(lines[NumLines - 1].morphProgress, Num(1))
                   THEN [r EXCEPT !.phase = "holding",
                                  !.phaseStartTime = r.time, !.holdTimer = 0,
                                  !.currentCurveIndex = r.nextCurveIndex,
                                  !.lines = [i \in LineIndices |->
                                               [lines[i] EXCEPT !.drawProgress = Num(1)]]]
                   ELSE [r EXCEPT !.lines = lines]

\* updateRotation that rests while the ribbon is held
updateRotationPaused(r, deltaTime) ==
  IF r.phase = "holding" THEN r ELSE [r EXCEPT !.rotationTime = @ + deltaTime]

\* updateRotation: only rotationTime (kept in units of CONFIG.rotationSpeed)
updateRotation(r, deltaTime) == [r EXCEPT !.rotationTime = @ + deltaTime]

\* update that ends Drawing as soon as the first line is complete
FixedUpdateFirstLine(r, deltaTime) ==
  LET x == updateFillMeshes(
             FixedPhaseStep(updateRotation([r EXCEPT !.time = @ + deltaTime], deltaTime),
                            deltaTime))
  IN  IF x.phase = "drawing" /\ Ge(x.lines[0].drawProgress, Num(1))
        THEN [x EXCEPT !.phase = "holding", !.phaseStartTime = x.time,
                       !.holdTimer = 0]
        ELSE x

\* update that ends Morphing as soon as the first line's morph is complete
FixedUpdateFirstMorph(r, deltaTime) ==
  LET x == updateFillMeshes(
             FixedPhaseStep(updateRotation([r EXCEPT !.time = @ + deltaTime], deltaTime),
                            deltaTime))
  IN  IF r.phase = "morphing" /\ x.phase = "morphing" /\
         Ge(x.lines[0].morphProgress, Num(1))
        THEN [x EXCEPT !.phase = "holding", !.phaseStartTime = x.time,
                       !.holdTimer = 0,
                       !.currentCurveIndex = x.nextCurveIndex]
        ELSE x

\* update whose hold test is strict: Holding ends only once holdTimer
\* exceeds holdDuration
FixedUpdateStrictHold(r, deltaTime) ==
  LET x == updateFillMeshes(
             FixedPhaseStep(updateRotation([r EXCEPT !.time = @ + deltaTime], deltaTime),
                            deltaTime))
  IN  IF r.phase = "holding" /\ r.holdTimer + deltaTime = HoldDuration
        THEN updateFillMeshes(
               [updateRotation([r EXCEPT !.time = @ + deltaTime], deltaTime)
                  EXCEPT !.holdTimer = @ + deltaTime])
        ELSE x

\* update whose end-of-drawing test can never succeed (progress is clamped
\* to 1 and the test asks for more than 1)
FixedUpdateNeverHolds(r, deltaTime) ==
  CHOOSE updated \in
    {IF r.phase = "drawing" /\ x.phase = "holding"
       THEN [x EXCEPT !.phase = "drawing",
                      !.phaseStartTime = r.phaseStartTime,
                      !.holdTimer = r.holdTimer]
       ELSE x :
     x \in
       {updateFillMeshes(stepped) :
          stepped \in
            {FixedPhaseStep(rotated, deltaTime) :
               rotated \in {updateRotation([r EXCEPT !.time = @ + deltaTime],
                                           deltaTime)}}}} : TRUE

\* update that restarts the reveal once a morph has completed
FixedUpdateRedraw(r, deltaTime) ==
  LET x == updateFillMeshes(
             FixedPhaseStep(updateRotation([r EXCEPT !.time = @ + deltaTime], deltaTime),
                            deltaTime))
  IN  IF r.phase = "morphing" /\ x.phase = "holding"
        THEN [x EXCEPT !.phase = "drawing"] ELSE x

\* Ribbon3D.update(deltaTime), fixed variant
FixedUpdate(r, deltaTime) ==
  CHOOSE updated \in
    {updateFillMeshes(stepped) :
       stepped \in
         {FixedPhaseStep(rotated, deltaTime) :
            rotated \in {updateRotation([r EXCEPT !.time = @ + deltaTime],
                                        deltaTime)}}} : TRUE

----------------------------------------------------------------------------
(* 3d-ribbon-texture.js                                                    *)

\* new RibbonMesh(scene, curve): uProgress starts at 0.01
RibbonMesh ==
  [drawProgress |-> Num(0), morphProgress |-> Num(0), positions |-> 0,
   uProgress |-> [n |-> 1, d |-> 100]]

\* new Ribbon3D(scene), texture variant
TextureRibbon3D ==
  [time |-> 0, rotationTime |-> 0,
   currentCurveIndex |-> 0, nextCurveIndex |-> 1,
   phase |-> "drawing", phaseStartTime |-> 0, holdTimer |-> 0,
   ribbon |-> RibbonMesh]

\* the switch of Ribbon3D.update, texture variant
TexturePhaseStep(r, deltaTime) ==
  LET phaseElapsed == r.time - r.phaseStartTime
  IN  CASE r.phase = "drawing" ->
             LET drawProgress == Progress(phaseElapsed, CONFIG.drawDuration)
                 mesh == [r.ribbon EXCEPT !.drawProgress = drawProgress,
                                          !.uProgress = drawProgress]
             IN  IF Ge(drawProgress, Num(1))
                   THEN [r EXCEPT !.ribbon = mesh, !.phase = "holding",
                                  !.phaseStartTime = r.time, !.holdTimer = 0]
                   ELSE [r EXCEPT !.ribbon = mesh]
        [] r.phase = "holding" ->
             IF r.holdTimer + deltaTime >= HoldDuration
               THEN [r EXCEPT !.holdTimer = @ + deltaTime,
                              !.phase = "morphing",
                              !.phaseStartTime = r.time,
                              !.nextCurveIndex = NextCurve(r.currentCurveIndex),
                              !.ribbon.morphProgress = Num(0)]
               ELSE [r EXCEPT !.holdTimer = @ + deltaTime]
        [] r.phase = "morphing" ->
             LET morphProgress == Progress(phaseElapsed, CONFIG.morphDuration)
                 mesh == IF Le(morphProgress, Half)
                           THEN [r.ribbon EXCEPT
                                   !.morphProgress = morphProgress,
                                   !.uProgress = Minus(Num(1), Times(morphProgress, 2))]
                           ELSE [r.ribbon EXCEPT
                                   !.morphProgress = morphProgress,
                                   !.positions = IF AtMidpoint(morphProgress)
                                                   THEN r.nextCurveIndex ELSE @,
                                   !.uProgress = Times(Minus(morphProgress, Half), 2)]
             IN  IF Ge(morphProgress, Num(1))
                   THEN [r EXCEPT !.ribbon = mesh, !.phase = "holding",
                                  !.phaseStartTime = r.time, !.holdTimer = 0,
                                  !.currentCurveIndex = r.nextCurveIndex]
                   ELSE [r EXCEPT !.ribbon = mesh]

\* Ribbon3D.update(deltaTime), texture variant
TextureUpdate(r, deltaTime) ==
  TexturePhaseStep(updateRotation([r EXCEPT !.time = @ + deltaTime], deltaTime),
                   deltaTime)

----------------------------------------------------------------------------
(* ribbon.js (2D canvas)                                                   *)

NumDirections == 2     \* distinct outcomes of new Direction(width, height)
Directions == 0 .. (NumDirections - 1)

\* oldLines / newLines hold null or a line set; a line set is <<direction>>
null == <<>>

\* new Ribbon(width, height, noise): lines generated from the first direction
Ribbon(direction) ==
  [time |-> 0, state |-> "drawing",
   direction |-> direction, lines |-> <<direction>>,
   drawProgress |-> Num(0),
   lineDrawProgress |-> [i \in LineIndices |-> Num(0)],
   currentDrawLine |-> 0,
   oldLines |-> null, newLines |-> null,
   morphProgress |-> [i \in LineIndices |-> [erase |-> Num(0), draw |-> Num(0)]],
   currentMorphLine |-> 0,
   stateStartTime |-> 0, lastLineStartTime |-> 0]

\* _updateDrawing with every line started staggerDelay after the one before
\* it, currentDrawLine being the first line still incomplete
updateDrawingStaggered(r, timestamp) ==
  LET progress == [i \in LineIndices |->
                     LET lineElapsed == timestamp - r.stateStartTime - i * StaggerDelay
                     IN  IF lineElapsed >= 0
                           THEN Progress(lineElapsed, CONFIG.drawDuration)
                           ELSE r.lineDrawProgress[i]]
      complete == Cardinality({i \in LineIndices : Ge(progress[i], Num(1))})
      r1 == [r EXCEPT !.lineDrawProgress = progress,
                      !.currentDrawLine = complete]
  IN  IF complete >= NumLines
        THEN [r1 EXCEPT !.state = "holding", !.stateStartTime = timestamp]
        ELSE r1

\* Ribbon._updateDrawing(timestamp)
updateDrawing(r, timestamp) ==
  LET lineElapsed == timestamp - r.lastLineStartTime
      progress == Progress(lineElapsed, CONFIG.drawDuration)
      r1 == IF r.currentDrawLine < NumLines
              THEN IF Ge(progress, Num(1))
                     THEN [r EXCEPT !.lineDrawProgress[r.currentDrawLine] = progress,
                                    !.currentDrawLine = @ + 1,
                                    !.lastLineStartTime = timestamp]
                     ELSE [r EXCEPT !.lineDrawProgress[r.currentDrawLine] = progress]
              ELSE r
  IN  IF r1.currentDrawLine >= NumLines
        THEN [r1 EXCEPT !.state = "holding", !.stateStartTime = timestamp]
        ELSE r1

\* _startMorph that stays in Holding when the new direction equals the
\* current one
startMorphIfNew(r, timestamp, direction) ==
  IF direction = r.direction
    THEN r
    ELSE [r EXCEPT !.state = "morphing",
                   !.stateStartTime = timestamp,
                   !.lastLineStartTime = timestamp,
                   !.oldLines = r.lines,
                   !.direction = direction,
                   !.newLines = <<direction>>,
                   !.currentMorphLine = 0,
                   !.morphProgress =
                      [i \in LineIndices |-> [erase |-> Num(0), draw |-> Num(0)]]]

\* Ribbon._startMorph(timestamp), with the freshly drawn direction
startMorph(r, timestamp, direction) ==
  [r EXCEPT !.state = "morphing",
            !.stateStartTime = timestamp,
            !.lastLineStartTime = timestamp,
            !.oldLines = r.lines,
            !.direction = direction,
            !.newLines = <<direction>>,
            !.currentMorphLine = 0,
            !.morphProgress = [i \in LineIndices |-> [erase |-> Num(0), draw |-> Num(0)]]]

\* _updateMorphing that ends the morph as soon as the first line is complete
updateMorphingFirstLine(r, timestamp) ==
  LET morphProgress ==
        [i \in LineIndices |->
           LET lineStartTime == r.stateStartTime + i * StaggerDelay
               lineElapsed == timestamp - lineStartTime
           IN  IF timestamp >= lineStartTime
                 THEN [erase |-> Progress(lineElapsed, CONFIG.eraseDuration),
                       draw |-> Progress(lineElapsed, CONFIG.drawDuration)]
                 ELSE r.morphProgress[i]]
      allDone == Ge(morphProgress[0].erase, Num(1)) /\ Ge(morphProgress[0].draw, Num(1))
  IN  IF allDone
        THEN [r EXCEPT !.morphProgress = morphProgress,
                       !.lines = r.newLines,
                       !.oldLines = null, !.newLines = null,
                       !.state = "holding",
                       !.stateStartTime = timestamp,
                       !.lineDrawProgress = [i \in LineIndices |-> Num(1)]]
        ELSE [r EXCEPT !.morphProgress = morphProgress]

\* Ribbon._updateMorphing(timestamp)
updateMorphing(r, timestamp) ==
  LET morphProgress ==
        [i \in LineIndices |->
           LET lineStartTime == r.stateStartTime + i * StaggerDelay
               lineElapsed == timestamp - lineStartTime
           IN  IF timestamp >= lineStartTime
                 THEN [erase |-> Progress(lineElapsed, CONFIG.eraseDuration),
                       draw |-> Progress(lineElapsed, CONFIG.drawDuration)]
                 ELSE r.morphProgress[i]]
      allDone == \A i \in LineIndices :
                   Ge(morphProgress[i].erase, Num(1)) /\ Ge(morphProgress[i].draw, Num(1))
  IN  IF allDone
        THEN [r EXCEPT !.morphProgress = morphProgress,
                       !.lines = r.newLines,
                       !.oldLines = null, !.newLines = null,
                       !.state = "holding",
                       !.stateStartTime = timestamp,
                       !.lineDrawProgress = [i \in LineIndices |-> Num(1)]]
        ELSE [r EXCEPT !.morphProgress = morphProgress]

\* Ribbon.update(timestamp); direction is what new Direction would draw
CanvasUpdate(r, timestamp, direction) ==
  LET r0 == IF r.stateStartTime = 0
              THEN [r EXCEPT !.stateStartTime = timestamp,
                             !.lastLineStartTime = timestamp]
              ELSE r
      elapsed == timestamp - r0.stateStartTime
      r1 == CASE r0.state = "drawing" -> updateDrawing(r0, timestamp)
              [] r0.state = "holding" ->
                   IF elapsed >= HoldDuration
                     THEN startMorph(r0, timestamp, direction) ELSE r0
              [] r0.state = "morphing" -> updateMorphing(r0, timestamp)
  IN  [r1 EXCEPT !.time = @ + 1]

----------------------------------------------------------------------------
(* Vertex generation.  geometry holds one call of a routine that offsets    *)
(* vertices along frame binormals: the frames computeFrenetFrames returns   *)
(* for the curve, the routine called, the line and the time argument it was *)
(* called with, the frames it used for the offsets and the positions it     *)
(* produced (kept doubled: baseOffset and halfWidth can be half-integers),  *)
(* and the same of the call made before it.                                 *)

LineSpacing == 25      \* CONFIG.lineSpacing
RibbonWidth == 200     \* CONFIG.ribbonWidth

\* the directions a frame vector takes in the model
Vectors == {<<1, 0, 0>>, <<-1, 0, 0>>, <<0, 1, 0>>, <<0, -1, 0>>}

Dot(u, v) == u[1] * v[1] + u[2] * v[2] + u[3] * v[3]
Negate(v) == <<-v[1], -v[2], -v[3]>>
Plus(u, v) == <<u[1] + v[1], u[2] + v[2], u[3] + v[3]>>
Scale(v, k) == <<v[1] * k, v[2] * k, v[3] * k>>

\* twice curve.getPoint(i / pointsPerLine): the spine runs along z
Point2(i) == <<0, 0, 2 * i>>

\* what curve.computeFrenetFrames(pointsPerLine, false) can return: one
\* binormal and one normal per sample, pointsPerLine + 1 of each
FrenetFrames ==
  {[binormals |-> b, normals |-> [i \in 1 .. TotalPoints |-> <<0, 0, 1>>]] :
     b \in [1 .. TotalPoints -> Vectors]}

\* the stabilization loop with every entry compared with its predecessor
\* as computeFrenetFrames returned it
StabilizeAgainstInput(frames, i) ==
  LET flipped(k) == k >= i /\
                    Dot(frames.binormals[k], frames.binormals[k - 1]) < 0
  IN  [binormals |-> [k \in DOMAIN frames.binormals |->
                        IF flipped(k) THEN Negate(frames.binormals[k])
                                      ELSE frames.binormals[k]],
       normals |-> [k \in DOMAIN frames.normals |->
                      IF flipped(k) THEN Negate(frames.normals[k])
                                    ELSE frames.normals[k]]]

\* the stabilization loop of generatePositions from entry i on (entry 1 is
\* frames.binormals[0] of the code)
RECURSIVE Stabilize(_, _)
Stabilize(frames, i) ==
  IF i > Len(frames.binormals)
    THEN frames
    ELSE Stabilize(IF Dot(frames.binormals[i], frames.binormals[i - 1]) < 0
                     THEN [frames EXCEPT !.binormals[i] = Negate(@),
                                         !.normals[i] = Negate(@)]
                     ELSE frames,
                   i + 1)

\* twice this.baseOffset of line index
BaseOffset2(index) == (2 * index - (NumLines - 1)) * LineSpacing

\* generatePositions with the offset of every sample varied by the time
\* argument (the noise term of the first version of the ribbon)
generatePositionsNoisy(frames, index, time) ==
  LET stable == CHOOSE f \in {Stabilize(frames, 2)} : TRUE
  IN  [frames |-> stable,
       positions |-> [i \in 1 .. TotalPoints |->
                        Plus(Point2(i - 1),
                             Scale(stable.binormals[i],
                                   BaseOffset2(index) + (time % 2)))]]

\* Line3D.generatePositions(curve, time) of line index: the frames it
\* offsets along and the positions it returns; time is not read
generatePositions(frames, index, time) ==
  LET stable == CHOOSE f \in {Stabilize(frames, 2)} : TRUE
  IN  [frames |-> stable,
       positions |-> [i \in 1 .. TotalPoints |->
                        Plus(Point2(i - 1),
                             Scale(stable.binormals[i], BaseOffset2(index)))]]

\* the vertex loop of RibbonMesh.createGeometry and updateGeometry: a left
\* and a right vertex per sample
ribbonVertices(frames) ==
  [frames |-> frames,
   positions |-> [i \in 1 .. TotalPoints |->
                    <<Plus(Point2(i - 1), Scale(frames.binormals[i], -RibbonWidth)),
                      Plus(Point2(i - 1), Scale(frames.binormals[i], RibbonWidth))>>]]

\* no routine has been called
NoGeometry ==
  [curve |-> <<>>, routine |-> "none", index |-> 0, time |-> 0,
   used |-> <<>>, positions |-> <<>>,
   previous |-> [routine |-> "none", index |-> 0, time |-> 0, positions |-> <<>>]]

\* the call a geometry record holds
LastCall(g) ==
  [routine |-> g.routine, index |-> g.index, time |-> g.time,
   positions |-> g.positions]

\* a call made on a frame sequence that the curve keeps and hands out again:
\* the corrections the routine makes in place stay with the curve
CalledOnShared(routine, index, time, result) ==
  geometry' = [geometry EXCEPT !.curve = result.frames,
                               !.routine = routine,
                               !.index = index,
                               !.time = time,
                               !.used = result.frames,
                               !.positions = result.positions,
                               !.previous = LastCall(geometry)]

\* a call of a routine: computeFrenetFrames builds new arrays on every call,
\* so the frames the routine corrects in place are its own
Called(routine, index, time, result) ==
  geometry' = [geometry EXCEPT !.routine = routine,
                               !.index = index,
                               !.time = time,
                               !.used = result.frames,
                               !.positions = result.positions,
                               !.previous = LastCall(geometry)]

----------------------------------------------------------------------------
(* Direction.generateAllLines (ribbon.js).  A spine is an array of points,  *)
(* indexed from 0 as in the code.  The spines of the model are those whose  *)
(* tangents have whole-number lengths, so that Math.sqrt and the division   *)
(* by it are computed exactly; coordinates of line points are kept in       *)
(* units of 1/200 pixel.                                                    *)

MaxSpine == 3          \* points of the longest spine (pointsPerLine + 1 = 251)
MaxCoordinate == 2     \* spine coordinates are 0 .. MaxCoordinate
BaseSpacing == 3       \* CONFIG.baseSpacing

SpinePoints == [x : 0 .. MaxCoordinate, y : 0 .. 1]

IsSquare(n) == \E r \in 0 .. n : r * r = n

\* Math.sqrt(n) of a perfect square
Sqrt(n) == CHOOSE r \in 0 .. n : r * r = n

\* x * k for any integer k
Mul(x, k) ==
  IF x.d = 0
    THEN (IF IsNaN(x) \/ k = 0 THEN NaN
          ELSE [n |-> (IF k > 0 THEN x.n ELSE -x.n), d |-> 0])
    ELSE Div(x.n * k, x.d)

\* x + y
Add(x, y) == Minus(x, Mul(y, -1))

\* the tangent with central differences at every sample, the neighbours
\* taken around the ends of the spine
tangentWrapped(spine, i) ==
  LET n == Cardinality(DOMAIN spine)
  IN  [x |-> spine[(i + 1) % n].x - spine[(i + n - 1) % n].x,
       y |-> spine[(i + 1) % n].y - spine[(i + n - 1) % n].y,
       reads |-> {(i + 1) % n, (i + n - 1) % n}]

\* "Calculate tangent": the difference taken at sample i and the spine
\* indices read for it
tangent(spine, i) ==
  LET n == Cardinality(DOMAIN spine)
  IN  IF i = 0
        THEN [x |-> spine[1].x - spine[0].x,
              y |-> spine[1].y - spine[0].y,
              reads |-> {1, 0}]
      ELSE IF i = n - 1
        THEN [x |-> spine[i].x - spine[i - 1].x,
              y |-> spine[i].y - spine[i - 1].y,
              reads |-> {i, i - 1}]
        ELSE [x |-> spine[i + 1].x - spine[i - 1].x,
              y |-> spine[i + 1].y - spine[i - 1].y,
              reads |-> {i + 1, i - 1}]

\* "Normalize": divided by its length when that is positive, left as it is
\* otherwise
normalize(t) ==
  LET len == Sqrt(t.x * t.x + t.y * t.y)
  IN  IF len > 0 THEN [x |-> Div(t.x, len), y |-> Div(t.y, len)]
                 ELSE [x |-> Num(t.x), y |-> Num(t.y)]

\* "Perpendicular"
perpendicular(t) == [x |-> Mul(t.y, -1), y |-> t.x]

\* the spines of the model
Spines ==
  {spine \in UNION {[0 .. (n - 1) -> SpinePoints] : n \in 2 .. MaxSpine} :
     \A i \in DOMAIN spine :
       IsSquare(tangent(spine, i).x * tangent(spine, i).x +
                tangent(spine, i).y * tangent(spine, i).y)}

\* values noise.noise3D returns for the twist (it ranges over [-1, 1])
TwistNoise == {-1, 0, 1}

\* 200 * dynamicOffset of line lineIdx:
\* baseOffset * (0.6 + twistNoise * twistAmplitude * 0.4), twistAmplitude 1.8
DynamicOffset200(lineIdx, twistNoise) ==
  ((2 * lineIdx - (NumLines - 1)) * BaseSpacing) * (60 + twistNoise * 72)

\* Direction.generateAllLines(spine, noise, time): what was computed at
\* every sample, and the points of every line
generateAllLines(spine, twistNoise) ==
  LET samples == [i \in DOMAIN spine |->
                    LET raw == tangent(spine, i)
                        unit == normalize(raw)
                    IN  [point |-> spine[i], tangent |-> raw, unit |-> unit,
                         perp |-> perpendicular(unit)]]
  IN  [frames |-> samples,
       positions |->
         [lineIdx \in LineIndices |->
            [i \in DOMAIN spine |->
               [x |-> Add(Num(200 * spine[i].x),
                          Mul(samples[i].perp.x,
                              DynamicOffset200(lineIdx, twistNoise))),
                y |-> Add(Num(200 * spine[i].y),
                          Mul(samples[i].perp.y,
                              DynamicOffset200(lineIdx, twistNoise)))]]]]

----------------------------------------------------------------------------
(* Rendering resources.  A handle is <<instance, kind, index>>; disposeCount *)
(* counts the dispose() calls each allocated geometry or material has had,  *)
(* groups[g] is the set of meshes in the ribbonGroup of instance g, and     *)
(* scene is the set of ribbonGroups that are children of the scene.         *)

\* geometries and materials allocated by new Ribbon3D (fixed): one pair per
\* line (Line3D.createMesh) and one pair per fill mesh (createFillMeshes)
FixedAllocated(g) ==
  {<<g, "lineGeometry", i>> : i \in LineIndices} \cup
  {<<g, "lineMaterial", i>> : i \in LineIndices} \cup
  {<<g, "fillGeometry", i>> : i \in FillIndices} \cup
  {<<g, "fillMaterial", i>> : i \in FillIndices}

\* meshes added to the ribbonGroup by new Ribbon3D (fixed)
FixedMeshes(g) ==
  {<<g, "line", i>> : i \in LineIndices} \cup {<<g, "fill", i>> : i \in FillIndices}

\* geometry and material allocated by new RibbonMesh (texture)
TextureAllocated(g) == {<<g, "ribbonGeometry", 0>>, <<g, "ribbonMaterial", 0>>}

TextureMeshes(g) == {<<g, "ribbon", 0>>}

\* Line3D.dispose releasing the geometry but not the material
Line3DDisposeGeometryOnly(g, i) == << <<g, "lineGeometry", i>> >>

\* dispose() calls made by Line3D.dispose of line i, in order
Line3DDispose(g, i) == << <<g, "lineGeometry", i>>, <<g, "lineMaterial", i>> >>

\* dispose() calls made for fill mesh i by Ribbon3D.dispose
FillDispose(g, i) == << <<g, "fillGeometry", i>>, <<g, "fillMaterial", i>> >>

\* the loop over this.lines in Ribbon3D.dispose, lines 0 .. n
RECURSIVE LinesDispose(_, _)
LinesDispose(g, n) ==
  IF n < 0 THEN <<>> ELSE LinesDispose(g, n - 1) \o Line3DDispose(g, n)

\* the loop over this.fillMeshes in Ribbon3D.dispose, fill meshes 0 .. n
RECURSIVE FillsDispose(_, _)
FillsDispose(g, n) ==
  IF n < 0 THEN <<>> ELSE FillsDispose(g, n - 1) \o FillDispose(g, n)

\* dispose() calls made by Ribbon3D.dispose (fixed)
FixedDispose(g) == LinesDispose(g, NumLines - 1) \o FillsDispose(g, NumLines - 2)

\* dispose() calls made by RibbonMesh.dispose via Ribbon3D.dispose (texture)
TextureDispose(g) == << <<g, "ribbonGeometry", 0>>, <<g, "ribbonMaterial", 0>> >>

\* meshes Ribbon3D.dispose removes from the ribbonGroup
FixedRemoved(g) == FixedMeshes(g)

TextureRemoved(g) == TextureMeshes(g)

Calls(calls, h) == Cardinality({k \in DOMAIN calls : calls[k] = h})

\* the counters after the given dispose() calls and allocations
Account(counts, calls, allocated) ==
  [h \in DOMAIN counts \cup allocated |->
     IF h \in DOMAIN counts THEN counts[h] + Calls(calls, h) ELSE 0]

----------------------------------------------------------------------------
(* RibbonManager                                                           *)

DefaultConfig ==
  [drawDuration |-> DrawDuration, morphDuration |-> MorphDuration,
   eraseDuration |-> EraseDuration]

\* The page around a manager: how far its constructor got ("running": the
\* ribbon is built and animate has not been called yet; "returned": it gave
\* up; "done"), whether getElementById found the canvas, the console.error
\* calls made, the frame callbacks requestAnimationFrame holds, the resize
\* listeners registered, and the instances (by generation) that the last
\* animate call updated.
Constructing ==
  [constructor |-> "running", canvas |-> TRUE, errors |-> 0, pending |-> 0,
   listeners |-> 0, updated |-> <<>>]

\* this.ribbon of a manager whose constructor never assigned it
NoRibbon == [state |-> "none"]

\* a constructor that reports the missing canvas and carries on
MissingCanvasIgnored ==
  [host |-> [Constructing EXCEPT !.canvas = FALSE, !.errors = 1],
   ribbon |-> Ribbon(0)]

\* new RibbonManager(canvasId) when getElementById finds no element:
\* console.error, return
MissingCanvas ==
  [host |-> [Constructing EXCEPT !.constructor = "returned", !.canvas = FALSE,
                                !.errors = 1],
   ribbon |-> NoRibbon]

\* animate can be called: by the constructor, or as a pending frame callback
Runnable(h) == h.constructor = "running" \/ h.pending >= 1

\* a frame callback bound to the instance that was current when the callback
\* was requested
CallbackTargetCaptured(h, current) ==
  IF h.updated = <<>> THEN current ELSE h.updated[1]

\* the instance an animate call updates: this.ribbon, read when it runs
CallbackTarget(h, current) == current

\* one animate call: the callback that ran is no longer pending, update is
\* called on this.ribbon and one successor is requested; the constructor's
\* own call comes with the registration of the resize listener
animate(h, current) ==
  [h EXCEPT !.constructor = "done",
            !.listeners = IF h.constructor = "running" THEN @ + 1 ELSE @,
            !.pending = (IF h.constructor = "running" THEN @ ELSE @ - 1) + 1,
            !.updated = <<CallbackTarget(h, current)>>]

\* new RibbonManager(): the state once the constructor has built the ribbon,
\* before its first animate call
InitWith(config) ==
  /\ variant \in Variants
  /\ host = Constructing
  /\ gradient = NoGradient
  /\ noise = NoNoise
  /\ CONFIG = config
  /\ generation = 0
  /\ clock = 0
  /\ \/ /\ variant = "fixed"
        /\ ribbon = Ribbon3D
        /\ disposeCount = [h \in FixedAllocated(0) |-> 0]
        /\ groups = [g \in {0} |-> FixedMeshes(0)]
        /\ scene = {0}
     \/ /\ variant = "texture"
        /\ ribbon = TextureRibbon3D
        /\ disposeCount = [h \in TextureAllocated(0) |-> 0]
        /\ groups = [g \in {0} |-> TextureMeshes(0)]
        /\ scene = {0}
     \/ /\ variant = "canvas"
        /\ \E direction \in Directions : ribbon = Ribbon(direction)
        /\ disposeCount = <<>>
        /\ groups = <<>>
        /\ scene = {}

Init == InitWith(DefaultConfig) /\ geometry = NoGeometry

\* RibbonManager.animate (fixed): one frame
FrameFixed(deltaTime) ==
  /\ variant = "fixed"
  /\ Runnable(host)
  /\ ribbon.time + deltaTime <= MaxTime
  /\ ribbon' = FixedUpdate(ribbon, deltaTime)
  /\ host' = animate(host, generation)
  /\ UNCHANGED <<variant, CONFIG, generation, clock, disposeCount, scene, groups, geometry, gradient, noise>>

AnimateFixed == \E deltaTime \in Deltas : FrameFixed(deltaTime)

\* RibbonManager.animate (texture): one frame
FrameTexture(deltaTime) ==
  /\ variant = "texture"
  /\ Runnable(host)
  /\ ribbon.time + deltaTime <= MaxTime
  /\ ribbon' = TextureUpdate(ribbon, deltaTime)
  /\ host' = animate(host, generation)
  /\ UNCHANGED <<variant, CONFIG, generation, clock, disposeCount, scene, groups, geometry, gradient, noise>>

AnimateTexture == \E deltaTime \in Deltas : FrameTexture(deltaTime)

\* RibbonManager.animate(timestamp) (canvas): one frame; requestAnimationFrame
\* timestamps increase from frame to frame
FrameCanvas(deltaTime) ==
  /\ variant = "canvas"
  /\ Runnable(host)
  /\ clock + deltaTime <= MaxClock
  /\ clock' = clock + deltaTime
  /\ \E direction \in Directions :
       ribbon' = CanvasUpdate(ribbon, clock', direction)
  /\ host' = animate(host, generation)
  /\ UNCHANGED <<variant, CONFIG, generation, disposeCount, scene, groups, geometry, gradient, noise>>

AnimateCanvas == \E deltaTime \in CanvasDeltas : FrameCanvas(deltaTime)

\* handleResize that disposes the ribbon but goes on using it
HandleResizeFixedReuse ==
  /\ variant = "fixed"
  /\ host.listeners >= 1
  /\ generation < MaxResizes
  /\ generation' = generation + 1
  /\ ribbon' = ribbon
  /\ disposeCount' = Account(disposeCount, FixedDispose(generation),
                             FixedAllocated(generation'))
  /\ groups' = [g \in DOMAIN groups \cup {generation'} |->
                  IF g = generation' THEN FixedMeshes(g)
                  ELSE IF g = generation THEN groups[g] \ FixedRemoved(g)
                  ELSE groups[g]]
  /\ scene' = (scene \ {generation}) \cup {generation'}
  /\ UNCHANGED <<variant, CONFIG, clock, geometry, host, gradient, noise>>

\* RibbonManager.handleResize (fixed): dispose the ribbon, construct a new one
HandleResizeFixed ==
  /\ variant = "fixed"
  /\ host.listeners >= 1
  /\ generation < MaxResizes
  /\ generation' = generation + 1
  /\ ribbon' = Ribbon3D
  /\ disposeCount' = Account(disposeCount, FixedDispose(generation),
                             FixedAllocated(generation'))
  /\ groups' = [g \in DOMAIN groups \cup {generation'} |->
                  IF g = generation' THEN FixedMeshes(g)
                  ELSE IF g = generation THEN groups[g] \ FixedRemoved(g)
                  ELSE groups[g]]
  /\ scene' = (scene \ {generation}) \cup {generation'}
  /\ UNCHANGED <<variant, CONFIG, clock, geometry, host, gradient, noise>>

\* RibbonManager.handleResize (texture)
HandleResizeTexture ==
  /\ variant = "texture"
  /\ host.listeners >= 1
  /\ generation < MaxResizes
  /\ generation' = generation + 1
  /\ ribbon' = TextureRibbon3D
  /\ disposeCount' = Account(disposeCount, TextureDispose(generation),
                             TextureAllocated(generation'))
  /\ groups' = [g \in DOMAIN groups \cup {generation'} |->
                  IF g = generation' THEN TextureMeshes(g)
                  ELSE IF g = generation THEN groups[g] \ TextureRemoved(g)
                  ELSE groups[g]]
  /\ scene' = (scene \ {generation}) \cup {generation'}
  /\ UNCHANGED <<variant, CONFIG, clock, geometry, host, gradient, noise>>

\* the resize listener of the canvas RibbonManager: setupCanvas(); init()
HandleResizeCanvas ==
  /\ variant = "canvas"
  /\ host.listeners >= 1
  /\ generation < MaxResizes
  /\ generation' = generation + 1
  /\ \E direction \in Directions : ribbon' = Ribbon(direction)
  /\ UNCHANGED <<variant, CONFIG, clock, disposeCount, scene, groups, geometry, host, gradient, noise>>

Next ==
  \/ AnimateFixed
  \/ AnimateTexture
  \/ AnimateCanvas
  \/ HandleResizeFixed
  \/ HandleResizeTexture
  \/ HandleResizeCanvas

\* configurations with a zero or negative drawDuration or morphDuration
DegenerateConfigs ==
  {[drawDuration |-> d, morphDuration |-> m, eraseDuration |-> EraseDuration] :
     d \in {-1, 0, DrawDuration}, m \in {-1, 0, MorphDuration}}

InitDegenerate ==
  /\ \E config \in DegenerateConfigs : InitWith(config)
  /\ geometry = NoGeometry

SpecDegenerate == InitDegenerate /\ [][Next]_vars

\* page loads on which the canvas element may be missing
InitStartup ==
  \/ Init
  \/ /\ variant = "canvas"
     /\ CONFIG = DefaultConfig
     /\ generation = 0
     /\ clock = 0
     /\ host = MissingCanvas.host
     /\ gradient = NoGradient
     /\ noise = NoNoise
     /\ ribbon = MissingCanvas.ribbon
     /\ disposeCount = <<>>
     /\ groups = <<>>
     /\ scene = {}
     /\ geometry = NoGeometry

SpecStartup == InitStartup /\ [][Next]_vars

Spec == Init /\ [][Next]_vars

----------------------------------------------------------------------------
(* Properties                                                              *)

Is3D == variant \in {"fixed", "texture"}

\* the phase of the current instance, whatever the variant
Phase == IF variant = "canvas" THEN ribbon.state ELSE ribbon.phase

\* the strands of a 3D instance: its lines, or its single ribbon mesh
Strands == IF variant = "fixed" THEN {ribbon.lines[i] : i \in LineIndices}
           ELSE IF variant = "texture" THEN {ribbon.ribbon} ELSE {}

\* a step taken by update (animate), as opposed to a resize
UpdateStep == generation' = generation

\* C1: in the 3D variants, during Morphing a strand whose morphProgress is
\* below 0.5 shows the old curve (curves[currentCurveIndex]) and a strand whose
\* morphProgress is at or above 0.5 shows the target curve
\* (curves[nextCurveIndex]).
C1_MidpointSwitch ==
  (Is3D /\ ribbon.phase = "morphing") =>
    \A s \in Strands :
      /\ Lt(s.morphProgress, Half) => s.positions = ribbon.currentCurveIndex
      /\ Ge(s.morphProgress, Half) => s.positions = ribbon.nextCurveIndex

\* C2: in the 3D variants, in every Holding state every strand shows
\* curves[currentCurveIndex].
C2_HoldingShowsCurrentCurve ==
  (Is3D /\ ribbon.phase = "holding") =>
    \A s \in Strands : s.positions = ribbon.currentCurveIndex

\* C3: every instance starts in Drawing; update only ever changes the phase
\* Drawing->Holding, Holding->Morphing or Morphing->Holding, so update never
\* puts an instance back into Drawing.
C3_PhaseTransitions ==
  /\ Phase = "drawing"
  /\ [][/\ ~UpdateStep => Phase' = "drawing"
        /\ (UpdateStep /\ Phase' # Phase) =>
             <<Phase, Phase'>> \in {<<"drawing", "holding">>,
                                    <<"holding", "morphing">>,
                                    <<"morphing", "holding">>}]_vars

\* C3 witness: an instance of each variant has gone round to Morphing again
C3_Witness ==
  /\ variant = "canvas"
  /\ ribbon.state = "morphing"
  /\ ribbon.lines # <<ribbon.direction>>
  /\ \A i \in LineIndices : ribbon.lineDrawProgress[i] = Num(1)

\* visible samples of a line and visible quads of a fill mesh
VisibleSamples(line) == line.drawRange.count.n
VisibleQuads(fill) == fill.drawRange.count.n \div 6

Min(a, b) == IF a < b THEN a ELSE b

\* C4: in the fixed variant the visible extent of each fill patch, as a
\* sample count, never exceeds the visible sample count of the less visible
\* of its two bounding strands.
C4_FillWithinStrands ==
  variant = "fixed" =>
    \A i \in FillIndices :
      VisibleQuads(ribbon.fillMeshes[i]) <=
        Min(VisibleSamples(ribbon.lines[i]), VisibleSamples(ribbon.lines[i + 1]))

\* C5: in the 3D variants currentCurveIndex changes only when a morph
\* completes, and then by exactly one position of the catalog cycle:
\* currentCurveIndex' = (currentCurveIndex + 1) mod catalogSize.
C5_CurveIndexCycle ==
  [][(Is3D /\ UpdateStep) =>
       IF ribbon.phase = "morphing" /\ ribbon'.phase = "holding"
         THEN ribbon'.currentCurveIndex = (ribbon.currentCurveIndex + 1) % NumCurves
         ELSE ribbon'.currentCurveIndex = ribbon.currentCurveIndex]_vars

\* C5 witness: a full cycle of the catalog has completed (the index only
\* returns to 0, with the target still equal to it, by wrapping)
C5_Witness ==
  /\ Is3D
  /\ ribbon.phase = "holding"
  /\ ribbon.currentCurveIndex = 0
  /\ ribbon.nextCurveIndex = 0

\* the progress values driven by drawDuration and by morphDuration
DrawProgressOf(r) ==
  IF variant = "fixed" THEN {r.lines[i].drawProgress : i \in LineIndices}
  ELSE IF variant = "texture" THEN {r.ribbon.drawProgress}
  ELSE {r.lineDrawProgress[i] : i \in LineIndices} \cup
       {r.morphProgress[i].draw : i \in LineIndices}

MorphProgressOf(r) ==
  IF variant = "fixed" THEN {r.lines[i].morphProgress : i \in LineIndices}
  ELSE IF variant = "texture" THEN {r.ribbon.morphProgress}
  ELSE {}

\* C6: with a zero or negative drawDuration (morphDuration) every draw
\* (morph) progress is clamped to exactly 1 as soon as it is computed: it is
\* 0 before that and 1 after, never NaN and never negative.
C6_DegenerateDurationClamps ==
  /\ CONFIG.drawDuration <= 0 =>
       \A p \in DrawProgressOf(ribbon) : p \in {Num(0), Num(1)}
  /\ CONFIG.morphDuration <= 0 =>
       \A p \in MorphProgressOf(ribbon) : p \in {Num(0), Num(1)}

\* every progress value of an instance, in a fixed order
ProgressVector(r) ==
  IF variant = "fixed"
    THEN [k \in 0 .. (2 * NumLines - 1) |->
            IF k < NumLines THEN r.lines[k].drawProgress
            ELSE r.lines[k - NumLines].morphProgress]
  ELSE IF variant = "texture"
    THEN [k \in 0 .. 1 |->
            IF k = 0 THEN r.ribbon.drawProgress ELSE r.ribbon.morphProgress]
  ELSE [k \in 0 .. (3 * NumLines - 1) |->
          IF k < NumLines THEN r.lineDrawProgress[k]
          ELSE IF k < 2 * NumLines THEN r.morphProgress[k - NumLines].erase
          ELSE r.morphProgress[k - 2 * NumLines].draw]

InUnitInterval(p) == Ge(p, Num(0)) /\ Le(p, Num(1))

\* C7: with positive durations every drawProgress, morphProgress and 2D
\* erase/draw progress lies in [0,1] in every reachable state, and an update
\* that stays in the same phase never decreases any of them.
C7_ProgressBoundedMonotone ==
  /\ [](\A k \in DOMAIN ProgressVector(ribbon) :
          InUnitInterval(ProgressVector(ribbon)[k]))
  /\ [][(UpdateStep /\ Phase' = Phase) =>
          \A k \in DOMAIN ProgressVector(ribbon) :
            Ge(ProgressVector(ribbon')[k], ProgressVector(ribbon)[k])]_vars

\* C7 witness: a morph in progress with a strand strictly inside (0,1)
C7_Witness ==
  /\ Phase = "morphing"
  /\ \E k \in DOMAIN ProgressVector(ribbon) :
       /\ Gt(ProgressVector(ribbon)[k], Half)
       /\ Lt(ProgressVector(ribbon)[k], Num(1))

\* C8: in the fixed variant every update made in Drawing at phase-elapsed
\* time e leaves drawProgress[i] = 0 with an empty draw range while
\* e < i*staggerDelay, and min(1, (e - i*staggerDelay)/drawDuration) otherwise.
C8_StaggeredDrawProgress ==
  [][(variant = "fixed" /\ UpdateStep /\ ribbon.phase = "drawing") =>
       \A i \in LineIndices :
         LET e == ribbon'.time - ribbon.phaseStartTime
             line == ribbon'.lines[i]
         IN  IF e < i * StaggerDelay
               THEN /\ line.drawProgress = Num(0)
                    /\ line.drawRange.count = Num(0)
               ELSE line.drawProgress.n * CONFIG.drawDuration =
                      Min(CONFIG.drawDuration, e - i * StaggerDelay) *
                        line.drawProgress.d]_vars

\* C8 witness: half of drawDuration has elapsed: strand 0 is at 0.5 and the
\* last strand has not started
C8_Witness ==
  /\ variant = "fixed"
  /\ ribbon.phase = "drawing"
  /\ ribbon.lines[0].drawProgress = Half
  /\ ribbon.time < (NumLines - 1) * StaggerDelay
  /\ ribbon.lines[NumLines - 1].drawRange.count = Num(0)

\* the animation state a constructor leaves behind
Fresh(r) ==
  IF variant = "canvas"
    THEN /\ r.state = "drawing"
         /\ r.time = 0 /\ r.stateStartTime = 0 /\ r.lastLineStartTime = 0
         /\ r.currentDrawLine = 0 /\ r.currentMorphLine = 0
         /\ r.oldLines = null /\ r.newLines = null
         /\ \A i \in LineIndices :
              /\ r.lineDrawProgress[i] = Num(0)
              /\ r.morphProgress[i] = [erase |-> Num(0), draw |-> Num(0)]
    ELSE /\ r.phase = "drawing"
         /\ r.time = 0 /\ r.holdTimer = 0 /\ r.phaseStartTime = 0
         /\ r.rotationTime = 0
         /\ r.currentCurveIndex = 0 /\ r.nextCurveIndex = 1
         /\ \A p \in DrawProgressOf(r) \cup MorphProgressOf(r) : p = Num(0)
         /\ variant = "fixed" =>
              \A i \in LineIndices :
                r.lines[i].positions = 0 /\ r.lines[i].drawRange.count = Num(0)
         /\ variant = "texture" => r.ribbon.positions = 0

\* C9: a resize in any phase replaces the instance by a freshly constructed
\* one: phase Drawing, every progress 0, and in the 3D variants
\* currentCurveIndex 0, time 0 and holdTimer 0; nothing carries over.
C9_ResizeReconstructs == [][~UpdateStep => Fresh(ribbon')]_vars

\* C9 witness: a resized instance, not yet updated
C9_Witness == generation >= 1 /\ Fresh(ribbon)

AllocatedBy(g) ==
  IF variant = "fixed" THEN FixedAllocated(g) ELSE TextureAllocated(g)

\* C10: in the 3D variants, after any interleaving of frames and resizes every
\* geometry and material of a discarded instance has been disposed exactly
\* once, no discarded ribbonGroup is left in the scene or holds a mesh, and
\* the undisposed resources are exactly those of the current instance.
C10_DisposedExactlyOnce ==
  Is3D =>
    /\ DOMAIN disposeCount = UNION {AllocatedBy(g) : g \in 0 .. generation}
    /\ \A h \in DOMAIN disposeCount :
         disposeCount[h] = IF h[1] < generation THEN 1 ELSE 0
    /\ {h \in DOMAIN disposeCount : disposeCount[h] = 0} = AllocatedBy(generation)
    /\ scene = {generation}
    /\ \A g \in DOMAIN groups : g < generation => groups[g] = {}

\* C10 witness: two resizes, with frames after the last one
C10_Witness ==
  /\ variant = "fixed"
  /\ generation >= 2
  /\ ribbon.phase = "morphing"

----------------------------------------------------------------------------
\* C11 (as stated): in every reachable state whose phase is holding,
\* nextCurveIndex = (currentCurveIndex + 1) mod catalogSize
C11_TargetSelectedOnEntry ==
  (Is3D /\ Phase = "holding") =>
    ribbon.nextCurveIndex = (ribbon.currentCurveIndex + 1) % NumCurves

\* C11 (amended): the morph target is selected when Holding ends; in every
\* reachable state whose phase is morphing,
\* nextCurveIndex = (currentCurveIndex + 1) mod catalogSize, and in a Holding
\* that follows a morph nextCurveIndex still equals currentCurveIndex
C11_TargetSelectedOnExit ==
  /\ []((Is3D /\ Phase = "morphing") =>
         ribbon.nextCurveIndex = (ribbon.currentCurveIndex + 1) % NumCurves)
  /\ [][(Is3D /\ UpdateStep /\ Phase = "morphing" /\ Phase' = "holding") =>
          /\ ribbon'.currentCurveIndex = ribbon.nextCurveIndex
          /\ ribbon'.nextCurveIndex = ribbon'.currentCurveIndex]_vars

\* a morph whose target wraps around to the first curve of the catalog
C11_Witness ==
  /\ Is3D /\ Phase = "morphing"
  /\ ribbon.currentCurveIndex = NumCurves - 1 /\ ribbon.nextCurveIndex = 0

\* draw progress of strand i of an instance (the texture variant has one
\* strand, the ribbon mesh)
StrandIndices == IF variant = "texture" THEN {0} ELSE LineIndices

StrandDrawProgress(r, i) ==
  IF variant = "fixed" THEN r.lines[i].drawProgress
  ELSE IF variant = "texture" THEN r.ribbon.drawProgress
  ELSE r.lineDrawProgress[i]

LastStrand == IF variant = "texture" THEN 0 ELSE NumLines - 1

\* C12: in every variant an update made in Drawing changes the phase to
\* Holding exactly when it brings the last strand's draw progress to 1, which
\* was below 1 until then, and at that moment every strand's draw progress
\* is 1; otherwise the phase stays Drawing.
C12_DrawingEndsWithLastStrand ==
  [][(UpdateStep /\ Phase = "drawing") =>
       /\ Lt(StrandDrawProgress(ribbon, LastStrand), Num(1))
       /\ Phase' = IF Ge(StrandDrawProgress(ribbon', LastStrand), Num(1))
                     THEN "holding" ELSE "drawing"
       /\ Phase' = "holding" =>
            \A i \in StrandIndices : StrandDrawProgress(ribbon', i) = Num(1)]_vars

\* C12 witness: the update that completed the last strand has just put a
\* fixed instance in Holding, later than the earliest possible moment
C12_Witness ==
  /\ variant = "fixed"
  /\ Phase = "holding"
  /\ ribbon.time = ribbon.phaseStartTime
  /\ ribbon.time > DrawDuration + (NumLines - 1) * StaggerDelay
  /\ \A i \in LineIndices :
       /\ ribbon.lines[i].morphProgress = Num(0)
       /\ StrandDrawProgress(ribbon, i) = Num(1)

\* a draw range that covers all pointsPerLine + 1 samples
FullRange == [start |-> Num(0), count |-> Num(TotalPoints)]

\* C13: in the fixed variant an update made in Morphing changes the phase to
\* Holding exactly when it brings the last strand's morphProgress to 1, which
\* was below 1 until then; at that moment every strand's morphProgress is 1
\* and every strand's draw range covers all pointsPerLine + 1 samples;
\* otherwise the phase stays Morphing.
C13_MorphingEndsWithLastStrand ==
  [][(variant = "fixed" /\ UpdateStep /\ Phase = "morphing") =>
       /\ Lt(ribbon.lines[NumLines - 1].morphProgress, Num(1))
       /\ Phase' = IF Ge(ribbon'.lines[NumLines - 1].morphProgress, Num(1))
                     THEN "holding" ELSE "morphing"
       /\ Phase' = "holding" =>
            \A i \in LineIndices :
              /\ ribbon'.lines[i].morphProgress = Num(1)
              /\ ribbon'.lines[i].drawRange = FullRange]_vars

\* C13 witness: the update that completed the last strand's morph has just
\* put the instance back in Holding
C13_Witness ==
  /\ variant = "fixed"
  /\ Phase = "holding"
  /\ ribbon.time = ribbon.phaseStartTime
  /\ ribbon.currentCurveIndex = 1
  /\ \A i \in LineIndices :
       /\ ribbon.lines[i].morphProgress = Num(1)
       /\ ribbon.lines[i].drawRange = FullRange

\* what an update in Holding must leave alone: vertex positions, draw ranges
\* and progress values of every strand, and currentCurveIndex
HoldingFrame(r) ==
  IF variant = "fixed"
    THEN <<[i \in LineIndices |-> r.lines[i]], r.currentCurveIndex,
           [i \in FillIndices |-> r.fillMeshes[i].positions]>>
  ELSE IF variant = "texture"
    THEN <<r.ribbon, r.currentCurveIndex>>
  ELSE <<r.lines, r.direction, r.lineDrawProgress, r.morphProgress,
         r.currentDrawLine, r.oldLines, r.newLines>>

\* every strand, and every fill patch of the fixed variant, fully visible
FullyVisible(r) ==
  IF variant = "fixed"
    THEN /\ \A i \in LineIndices : r.lines[i].drawRange = FullRange
         /\ \A i \in FillIndices :
              r.fillMeshes[i].drawRange =
                [start |-> Num(0), count |-> Num(PointsPerLine * 6)]
  ELSE IF variant = "texture"
    THEN r.ribbon.uProgress = Num(1)
  ELSE /\ \A i \in LineIndices : r.lineDrawProgress[i] = Num(1)
       /\ r.oldLines = null /\ r.newLines = null

\* C14: every update that starts and ends in Holding leaves strand vertex
\* positions, strand draw ranges, per-strand progress values and
\* currentCurveIndex unchanged, and every strand (and every fill patch of the
\* fixed variant) is fully visible before and after it.
C14_HoldingIsStill ==
  [][(UpdateStep /\ Phase = "holding" /\ Phase' = "holding") =>
       /\ HoldingFrame(ribbon') = HoldingFrame(ribbon)
       /\ FullyVisible(ribbon)
       /\ FullyVisible(ribbon')]_vars

\* C14 witness: a Holding that follows a morph, part of the way through
C14_Witness ==
  /\ variant = "fixed"
  /\ Phase = "holding"
  /\ ribbon.currentCurveIndex = 1
  /\ ribbon.holdTimer > 0
  /\ FullyVisible(ribbon)

\* time elapsed at the moment now since the phase of r was entered: instance
\* time in the 3D variants, the page clock on the canvas
SincePhaseStart(r, now) == now - (IF variant = "canvas" THEN r.stateStartTime
                                                        ELSE r.phaseStartTime)

\* the moment an instance is at: its own time (3D), the last timestamp (canvas)
Now(r, timestamp) == IF variant = "canvas" THEN timestamp ELSE r.time

\* C15: an update made in Holding changes the phase to Morphing exactly when
\* the time elapsed since Holding was entered is at least holdDuration, and
\* until then it was less; in the 3D variants holdTimer is the sum of the
\* frame deltas since entry, on the canvas the test is
\* timestamp - stateStartTime >= holdDuration.
C15_HoldingEndsAfterHoldDuration ==
  /\ [](Phase = "holding" =>
         /\ SincePhaseStart(ribbon, Now(ribbon, clock)) < HoldDuration
         /\ Is3D => ribbon.holdTimer = ribbon.time - ribbon.phaseStartTime)
  /\ [][(UpdateStep /\ Phase = "holding") =>
          LET elapsed == SincePhaseStart(ribbon, Now(ribbon', clock'))
          IN  /\ Phase' = IF elapsed >= HoldDuration THEN "morphing" ELSE "holding"
              /\ Is3D => ribbon'.holdTimer = elapsed]_vars

\* C15 witness: a morph has just started on the frame at which exactly
\* holdDuration had accumulated over several frames
C15_Witness ==
  /\ variant = "fixed"
  /\ Phase = "morphing"
  /\ ribbon.time = ribbon.phaseStartTime
  /\ ribbon.holdTimer = HoldDuration

\* C16: in the fixed variant, after every update made in Morphing at
\* phase-elapsed time e: a strand whose stagger start has not passed
\* (e < i*staggerDelay) is fully visible; a started strand in the first half
\* (morphProgress <= 0.5) shows no more samples than before the update and
\* none at morphProgress = 0.5; a started strand that was already in the
\* second half shows no fewer samples than before the update, and one at
\* morphProgress = 1 shows all pointsPerLine + 1.
C16_EraseThenRedraw ==
  [][(variant = "fixed" /\ UpdateStep /\ Phase = "morphing") =>
       \A i \in LineIndices :
         LET e == ribbon'.time - ribbon.phaseStartTime
             before == ribbon.lines[i]
             after == ribbon'.lines[i]
         IN  IF e < i * StaggerDelay
               THEN after.drawRange = FullRange
               ELSE /\ Le(after.morphProgress, Half) =>
                         VisibleSamples(after) <= VisibleSamples(before)
                    /\ after.morphProgress = Half => VisibleSamples(after) = 0
                    /\ Ge(before.morphProgress, Half) =>
                         VisibleSamples(after) >= VisibleSamples(before)
                    /\ after.morphProgress = Num(1) =>
                         VisibleSamples(after) = TotalPoints]_vars

\* C16 witness: a morph in which the first strand is exactly at the midpoint
\* with nothing visible while a later one is still part of the way through
\* its erase half
C16_Witness ==
  /\ variant = "fixed"
  /\ Phase = "morphing"
  /\ ribbon.lines[0].morphProgress = Half
  /\ VisibleSamples(ribbon.lines[0]) = 0
  /\ \E i \in LineIndices :
       /\ Lt(ribbon.lines[i].morphProgress, Half)
       /\ VisibleSamples(ribbon.lines[i]) \in 1 .. PointsPerLine

\* the outcomes of the random draws an update can make: a new Direction on
\* the canvas, none in the 3D variants
RandomDraws == IF Is3D THEN {0} ELSE Directions

\* r with every vertex buffer replaced by geometry g: the curve (3D) or
\* direction (canvas) it was sampled from is all that the random values
\* (noise seed, Math.random in Direction) decide
WithGeometry(r, g) ==
  IF variant = "fixed"
    THEN [r EXCEPT !.lines = [i \in LineIndices |-> [r.lines[i] EXCEPT !.positions = g]],
                   !.fillMeshes = [i \in FillIndices |->
                                     [r.fillMeshes[i] EXCEPT !.positions = <<g, g>>]]]
  ELSE IF variant = "texture"
    THEN [r EXCEPT !.ribbon.positions = g]
  ELSE [r EXCEPT !.direction = g, !.lines = <<g>>,
                 !.oldLines = IF @ = null THEN null ELSE <<g>>,
                 !.newLines = IF @ = null THEN null ELSE <<g>>]

\* everything of an instance but its geometry: phase, progress values, timers
Timing(r) == WithGeometry(r, 0)

\* update of the current variant for a frame that advances time by deltaTime
Update(r, deltaTime, direction) ==
  IF variant = "fixed" THEN FixedUpdate(r, deltaTime)
  ELSE IF variant = "texture" THEN TextureUpdate(r, deltaTime)
  ELSE CanvasUpdate(r, clock + deltaTime, direction)

\* C17: the phase and the per-strand progress values after a frame are a
\* function of the phase, progress values and timers before it and of the
\* frame time alone: the update of the instance and the update of the same
\* instance with its geometry replaced, each with any random direction drawn
\* during it, agree on all of them.  Two runs fed the same frame times
\* therefore go through the same phases and progress values, step by step
\* from construction, whatever their random values.
C17_TimingIndependentOfGeometry ==
  /\ variant = "canvas" =>
       \A d1, d2 \in Directions : Timing(Ribbon(d1)) = Timing(Ribbon(d2))
  /\ \A deltaTime \in (IF variant = "canvas" THEN CanvasDeltas ELSE Deltas) :
       \E timing \in {Timing(Update(Timing(ribbon), deltaTime, 0))} :
         \A direction \in RandomDraws :
           /\ Timing(Update(Timing(ribbon), deltaTime, direction)) = timing
           /\ Timing(Update(ribbon, deltaTime, direction)) = timing

\* C17 witness: a canvas run whose successive random directions differed, in
\* the middle of a morph
C17_Witness ==
  /\ variant = "canvas"
  /\ ribbon.state = "morphing"
  /\ ribbon.oldLines # null /\ ribbon.newLines # ribbon.oldLines
  /\ \E i \in LineIndices :
       /\ Gt(ribbon.morphProgress[i].erase, Num(0))
       /\ Lt(ribbon.morphProgress[i].erase, Num(1))

----------------------------------------------------------------------------
(* Runs without resize in which frames with positive elapsed time keep     *)
(* arriving: animate re-requests itself on every call.                     *)

\* a frame that advances the instance's time
PositiveFrame ==
  \/ \E deltaTime \in Deltas \ {0} : FrameFixed(deltaTime) \/ FrameTexture(deltaTime)
  \/ \E deltaTime \in CanvasDeltas : FrameCanvas(deltaTime)

NextLive == AnimateFixed \/ AnimateTexture \/ AnimateCanvas

SpecLive == Init /\ [][NextLive]_vars /\ WF_vars(PositiveFrame)

\* the positive frame times of the current variant, and their extremes
FrameDeltas == IF variant = "canvas" THEN CanvasDeltas ELSE Deltas \ {0}
MinDelta == CHOOSE d \in FrameDeltas : \A e \in FrameDeltas : d <= e
MaxDelta == CHOOSE d \in FrameDeltas : \A e \in FrameDeltas : e <= d

\* an upper bound on the time the current phase can still need; on the
\* canvas every line of Drawing starts at the frame that completed the one
\* before it, so each can run over by up to one frame
PhaseBudget ==
  IF Phase = "holding" THEN HoldDuration
  ELSE IF Is3D
    THEN (NumLines - 1) * StaggerDelay +
           (IF Phase = "drawing" THEN DrawDuration ELSE MorphDuration)
  ELSE IF Phase = "drawing"
    THEN NumLines * (DrawDuration + MaxDelta) + MaxDelta
    ELSE (NumLines - 1) * StaggerDelay + DrawDuration + EraseDuration

\* the frames of the model do not run out before the current phase can end
InBudget ==
  Now(ribbon, clock) + PhaseBudget + MinDelta <=
    (IF variant = "canvas" THEN MaxClock ELSE MaxTime)

\* C18: with positive durations, no resize and frames with positive elapsed
\* time arriving for ever, no phase is stuck: Drawing is always followed by
\* Holding, Holding by Morphing and Morphing by Holding again, so Holding and
\* Morphing recur for as long as frames arrive (the model's frames stop at
\* MaxTime / MaxClock, hence the budget).
C18_PhasesRecur ==
  /\ (Phase = "drawing" /\ InBudget) ~> (Phase = "holding")
  /\ (Phase = "holding" /\ InBudget) ~> (Phase = "morphing")
  /\ (Phase = "morphing" /\ InBudget) ~> (Phase = "holding")

\* C18 witness: a second morph under way, with frames left to complete it
C18_Witness ==
  /\ variant = "fixed"
  /\ Phase = "morphing"
  /\ ribbon.currentCurveIndex = 1
  /\ InBudget

----------------------------------------------------------------------------
(* Calls of the vertex routines on every frame sequence of the model.       *)

\* values of the time argument of generatePositions (this.time at the call)
CallTimes == {0, 51}

InitGeometry ==
  /\ InitWith(DefaultConfig)
  /\ Is3D
  /\ \E frames \in FrenetFrames : geometry = [NoGeometry EXCEPT !.curve = frames]

\* line.generatePositions(curve, time) for one of the lines
GeneratePositions ==
  /\ variant = "fixed"
  /\ \E index \in LineIndices, time \in CallTimes :
       Called("generatePositions", index, time,
              generatePositions(geometry.curve, index, time))
  /\ UNCHANGED <<variant, CONFIG, ribbon, generation, clock, disposeCount,
                 scene, groups, host, gradient, noise>>

\* new RibbonMesh(scene, curve) -> createGeometry(curve)
CreateGeometry ==
  /\ variant = "texture"
  /\ Called("createGeometry", 0, 0, ribbonVertices(geometry.curve))
  /\ UNCHANGED <<variant, CONFIG, ribbon, generation, clock, disposeCount,
                 scene, groups, host, gradient, noise>>

\* ribbon.updateGeometry(curve)
UpdateGeometry ==
  /\ variant = "texture"
  /\ Called("updateGeometry", 0, 0, ribbonVertices(geometry.curve))
  /\ UNCHANGED <<variant, CONFIG, ribbon, generation, clock, disposeCount,
                 scene, groups, host, gradient, noise>>

NextGeometry == GeneratePositions \/ CreateGeometry \/ UpdateGeometry

SpecGeometry == InitGeometry /\ [][NextGeometry]_vars

\* the binormals a routine offset its vertices along, and those it was given
UsedBinormals == geometry.used.binormals
GivenBinormals == geometry.curve.binormals

\* no two adjacent binormals used for offsets have a negative dot product
SignContinuous ==
  \A i \in 2 .. Len(UsedBinormals) :
    Dot(UsedBinormals[i], UsedBinormals[i - 1]) >= 0

\* C19: after Line3D.generatePositions the binormal sequence used for
\* offsetting has as many entries as the input frame sequence
\* (pointsPerLine + 1), no two adjacent binormals have a negative dot
\* product, the first entry is as given, and every later entry (with its
\* normal) is the negation of the given one exactly when the given one has a
\* negative dot product with the already corrected previous binormal.
C19_BinormalsStabilized ==
  geometry.routine = "generatePositions" =>
    /\ Len(UsedBinormals) = Len(GivenBinormals)
    /\ Len(UsedBinormals) = PointsPerLine + 1
    /\ Len(geometry.used.normals) = PointsPerLine + 1
    /\ SignContinuous
    /\ UsedBinormals[1] = GivenBinormals[1]
    /\ geometry.used.normals[1] = geometry.curve.normals[1]
    /\ \A i \in 2 .. Len(UsedBinormals) :
         LET negated == Dot(GivenBinormals[i], UsedBinormals[i - 1]) < 0
         IN  /\ UsedBinormals[i] = IF negated THEN Negate(GivenBinormals[i])
                                              ELSE GivenBinormals[i]
             /\ geometry.used.normals[i] =
                  IF negated THEN Negate(geometry.curve.normals[i])
                             ELSE geometry.curve.normals[i]

\* C19 witness: an entry that agrees in sign with the given entry before it
\* has been negated, because that one had been negated before
C19_Witness ==
  /\ geometry.routine = "generatePositions"
  /\ \E i \in 3 .. Len(UsedBinormals) :
       /\ Dot(GivenBinormals[i], GivenBinormals[i - 1]) > 0
       /\ UsedBinormals[i] = Negate(GivenBinormals[i])
       /\ UsedBinormals[i - 1] = Negate(GivenBinormals[i - 1])

\* C20: every routine that offsets vertices along frame binormals
\* (generatePositions, createGeometry, updateGeometry) offsets along binormals
\* no two adjacent ones of which have a negative dot product.
C20_OffsetsSignContinuous ==
  geometry.routine # "none" => SignContinuous

\* C21: Line3D.generatePositions returns pointsPerLine + 1 samples; a call
\* with the same curve and the same line (baseOffset) as the call before it
\* returns the same positions, whatever the time arguments of the two calls;
\* and no call changes the curve or the ribbon instance and its lines.
C21_GeneratePositionsIdempotent ==
  /\ [](geometry.routine = "generatePositions" =>
          /\ Len(geometry.positions) = PointsPerLine + 1
          /\ (geometry.previous.routine = "generatePositions" /\
              geometry.previous.index = geometry.index) =>
               geometry.positions = geometry.previous.positions)
  /\ [][geometry'.routine = "generatePositions" =>
          /\ geometry'.curve = geometry.curve
          /\ ribbon' = ribbon]_vars

\* C21 witness: two calls in a row for the same outer line, with different
\* time arguments, on a curve whose frames needed a correction
C21_Witness ==
  /\ geometry.routine = "generatePositions"
  /\ geometry.previous.routine = "generatePositions"
  /\ geometry.previous.index = geometry.index
  /\ geometry.previous.time # geometry.time
  /\ BaseOffset2(geometry.index) # 0
  /\ geometry.used # geometry.curve

\* an instance with its rotation clock put back to zero
WithoutRotation(r) == [r EXCEPT !.rotationTime = 0]

\* C22: in the 3D variants every update, in every phase, advances
\* rotationTime by the frame's deltaTime (in units of rotationSpeed);
\* updateRotation changes rotationTime only (the group rotation is computed
\* from it): phase, phaseStartTime, holdTimer, time, curve indices and every
\* strand's progress and draw range are as before it; and the rest of update
\* never reads rotationTime: started from the same instance with another
\* rotationTime it produces the same phase, timers, indices and strands.
C22_RotationIsCosmetic ==
  /\ [][(Is3D /\ UpdateStep) =>
          ribbon'.rotationTime =
            ribbon.rotationTime + (ribbon'.time - ribbon.time)]_vars
  /\ [](Is3D =>
          \A deltaTime \in Deltas :
            /\ WithoutRotation(updateRotation(ribbon, deltaTime)) =
                 WithoutRotation(ribbon)
            /\ updateRotation(ribbon, deltaTime).rotationTime =
                 ribbon.rotationTime + deltaTime
            /\ WithoutRotation(Update(WithoutRotation(ribbon), deltaTime, 0)) =
                 WithoutRotation(Update(ribbon, deltaTime, 0)))

\* C22 witness: the rotation clock has run through Drawing, Holding and into
\* a morph, in step with the frames
C22_Witness ==
  /\ Is3D
  /\ Phase = "morphing"
  /\ ribbon.holdTimer >= HoldDuration
  /\ ribbon.rotationTime = ribbon.time
  /\ ribbon.rotationTime > ribbon.phaseStartTime

\* C23: on the canvas, when the canvas element is not found the manager
\* reports the error and initialization stops there: no ribbon instance
\* exists, no frame callback is pending and none has run (no update was ever
\* called), no resize listener is registered, and nothing happens afterwards.
C23_MissingCanvasStopsInit ==
  /\ []((variant = "canvas" /\ ~host.canvas) =>
          /\ host.errors = 1
          /\ host.constructor = "returned"
          /\ ribbon = NoRibbon
          /\ host.pending = 0
          /\ host.updated = <<>>
          /\ host.listeners = 0
          /\ clock = 0 /\ generation = 0)
  /\ [][host.canvas]_vars

\* C23 witness: a page whose canvas element is missing, after the constructor
C23_Witness ==
  /\ variant = "canvas"
  /\ ~host.canvas
  /\ host.errors = 1
  /\ host.constructor = "returned"

----------------------------------------------------------------------------
(* Calls of Direction.generateAllLines on every spine of the model.         *)

InitLines ==
  /\ InitWith(DefaultConfig)
  /\ variant = "canvas"
  /\ ribbon = Ribbon(0)
  /\ \E spine \in Spines : geometry = [NoGeometry EXCEPT !.curve = spine]

\* this.direction.generateAllLines(spine, this.noise, this.time)
GenerateAllLines ==
  /\ variant = "canvas"
  /\ \E twistNoise \in TwistNoise :
       Called("generateAllLines", 0, ribbon.time,
              generateAllLines(geometry.curve, twistNoise))
  /\ UNCHANGED <<variant, CONFIG, ribbon, generation, clock, disposeCount,
                 scene, groups, host, gradient, noise>>

SpecLines == InitLines /\ [][GenerateAllLines]_vars

\* what generateAllLines computed at each sample of the spine it was given
Samples == geometry.used

ZeroLength(t) == t.x = 0 /\ t.y = 0

\* a vector of length 1
IsUnit(v) ==
  /\ v.x.d > 0 /\ v.y.d > 0
  /\ v.x.n * v.x.n * v.y.d * v.y.d + v.y.n * v.y.n * v.x.d * v.x.d =
       v.x.d * v.x.d * v.y.d * v.y.d

\* C24: in generateAllLines, at a sample whose tangent has zero length the
\* perpendicular the strands are offset along is a unit vector (that of the
\* previous valid tangent, or of a default axis), and no coordinate of any
\* strand's point at that sample is NaN.
C24_ZeroTangentFallsBack ==
  geometry.routine = "generateAllLines" =>
    \A i \in DOMAIN Samples :
      ZeroLength(Samples[i].tangent) =>
        /\ IsUnit(Samples[i].perp)
        /\ \A lineIdx \in LineIndices :
             /\ ~IsNaN(geometry.positions[lineIdx][i].x)
             /\ ~IsNaN(geometry.positions[lineIdx][i].y)

\* C25: in generateAllLines, for a spine of n >= 2 points the tangent at
\* sample 0 is spine[1] - spine[0], at sample n-1 it is
\* spine[n-1] - spine[n-2], at every other sample i it is
\* spine[i+1] - spine[i-1], and no spine index outside 0 .. n-1 is read.
C25_OneSidedEndTangents ==
  geometry.routine = "generateAllLines" =>
    LET spine == geometry.curve
        n == Cardinality(DOMAIN spine)
        difference(p, q) == <<p.x - q.x, p.y - q.y>>
    IN  /\ n >= 2
        /\ DOMAIN Samples = 0 .. (n - 1)
        /\ \A i \in 0 .. (n - 1) :
             /\ Samples[i].tangent.reads \subseteq 0 .. (n - 1)
             /\ <<Samples[i].tangent.x, Samples[i].tangent.y>> =
                  IF i = 0 THEN difference(spine[1], spine[0])
                  ELSE IF i = n - 1 THEN difference(spine[n - 1], spine[n - 2])
                  ELSE difference(spine[i + 1], spine[i - 1])

\* C25 witness: a spine with an interior sample whose two ends differ, so
\* that differences taken around the ends would not be the one-sided ones
C25_Witness ==
  /\ geometry.routine = "generateAllLines"
  /\ Cardinality(DOMAIN geometry.curve) >= 3
  /\ geometry.curve[0] # geometry.curve[Cardinality(DOMAIN geometry.curve) - 1]
  /\ ~ZeroLength(Samples[0].tangent)
  /\ ~ZeroLength(Samples[1].tangent)

----------------------------------------------------------------------------
\* configured length of a phase of a 3D instance: the last strand starts
\* (strands - 1) * staggerDelay after the first
PhaseDuration(phase) ==
  IF phase = "holding" THEN HoldDuration
  ELSE LastStrand * StaggerDelay +
         (IF phase = "drawing" THEN DrawDuration ELSE MorphDuration)

\* the phase entered by the n-th transition, and the curve shown from then
PhaseAfter(n) == IF n % 2 = 1 THEN "holding" ELSE "morphing"
CurveAfter(n) == ((n - 1) \div 2) % NumCurves

\* the ideal time of the n-th transition: the sum of the configured
\* durations of the phases before it (Drawing, then Holding and Morphing in
\* turn)
RECURSIVE IdealTime(_)
IdealTime(n) ==
  IF n = 0 THEN 0
  ELSE IF n = 1 THEN PhaseDuration("drawing")
  ELSE IdealTime(n - 1) + PhaseDuration(PhaseAfter(n - 1))

\* C26: with frame deltas of at most D, the n-th phase transition of a 3D
\* instance happens no later than its ideal time plus D: the phase the
\* instance is in was entered by some n-th transition, consistent with the
\* phase and the curve shown, at a time within [IdealTime(n), IdealTime(n) + D]
\* (no transition happens before its ideal time).
C26_NoTimingDrift ==
  (Is3D /\ Phase # "drawing") =>
    \E n \in 1 .. (MaxTime \div HoldDuration) :
      /\ PhaseAfter(n) = Phase
      /\ CurveAfter(n) = ribbon.currentCurveIndex
      /\ IdealTime(n) <= ribbon.phaseStartTime
      /\ ribbon.phaseStartTime <= IdealTime(n) + MaxDelta

\* C27: once a manager is constructed, after any interleaving of frames and
\* resizes exactly one frame callback is pending; every animate call takes
\* the place of the callback that ran with exactly one successor and calls
\* update exactly once, on the instance that is current at that moment; a
\* resize requests no frame and calls no update, so an instance it has
\* discarded is never updated again.
C27_OnePendingFrame ==
  /\ [](host.constructor = "done" => host.pending = 1)
  /\ [][IF UpdateStep
          THEN /\ host'.pending = 1
               /\ host.constructor = "done" => host.pending = 1
               /\ host'.updated = <<generation>>
          ELSE /\ host' = host
               /\ host.pending = 1]_vars

\* C27 witness: a frame has run after a second resize that itself came
\* between two frames
C27_Witness ==
  /\ generation = 2
  /\ host.pending = 1
  /\ host.updated = <<2>>
  /\ Phase = "holding"

\* C28: in the fixed variant the vertices of every fill patch follow its two
\* bounding strands: an update that replaces a strand's positions by the
\* target curve's leaves the patches bounded by that strand with that
\* strand's new positions, and in every Holding state each fill patch's
\* vertices are the current positions of its two bounding strands.
C28_FillFollowsStrands ==
  (variant = "fixed" /\ Phase = "holding") =>
    \A i \in FillIndices :
      ribbon.fillMeshes[i].positions =
        <<ribbon.lines[i].positions, ribbon.lines[i + 1].positions>>

\* C29: the fixed variant has no fill meshes: in no reachable state does the
\* instance own a fill mesh, and its ribbonGroup holds line meshes only.
C29_NoFillMeshes ==
  variant = "fixed" =>
    /\ DOMAIN ribbon.fillMeshes = {}
    /\ \A g \in DOMAIN groups : \A mesh \in groups[g] : mesh[2] = "line"

\* time since the phase of a canvas instance was entered, at an update made
\* with the given timestamp (the first update stamps the instance)
CanvasElapsed(r, timestamp) ==
  timestamp - (IF r.stateStartTime = 0 THEN timestamp ELSE r.stateStartTime)

\* progress of a strand that starts i * staggerDelay after phase entry
StaggeredProgress(i, elapsed, duration) ==
  IF elapsed < i * StaggerDelay THEN Num(0)
  ELSE Progress(elapsed - i * StaggerDelay, duration)

\* C30: on the canvas, an update made in Drawing at phase-elapsed time e
\* leaves line i with draw progress 0 while e < i*staggerDelay and
\* min(1, (e - i*staggerDelay)/drawDuration) from then on, and an update made
\* in Morphing leaves line i's erase and draw progress at 0 while
\* e < i*staggerDelay and at min(1, (e - i*staggerDelay)/eraseDuration) and
\* min(1, (e - i*staggerDelay)/drawDuration) from then on.
C30_CanvasStagger ==
  [][(variant = "canvas" /\ UpdateStep) =>
       LET e == CanvasElapsed(ribbon, clock')
       IN  /\ ribbon.state = "drawing" =>
                \A i \in LineIndices :
                  ribbon'.lineDrawProgress[i] =
                    StaggeredProgress(i, e, CONFIG.drawDuration)
           /\ ribbon.state = "morphing" =>
                \A i \in LineIndices :
                  ribbon'.morphProgress[i] =
                    [erase |-> StaggeredProgress(i, e, CONFIG.eraseDuration),
                     draw |-> StaggeredProgress(i, e, CONFIG.drawDuration)]]_vars

AllMorphed(r) ==
  \A i \in LineIndices :
    r.morphProgress[i].erase = Num(1) /\ r.morphProgress[i].draw = Num(1)

Max(a, b) == IF a > b THEN a ELSE b

\* C32: on the canvas an update made in Morphing ends the morph exactly when
\* it brings every line's erase and draw progress to 1, which was not so
\* before it and does not happen earlier than
\* (lineCount-1)*staggerDelay + max(eraseDuration, drawDuration) after the
\* morph started; that update makes the new line set the current one; and
\* oldLines and newLines are non-null exactly in the morphing state.
C32_CanvasMorphEnds ==
  /\ [](variant = "canvas" =>
          /\ (ribbon.oldLines # null) <=> (ribbon.state = "morphing")
          /\ (ribbon.newLines # null) <=> (ribbon.state = "morphing")
          /\ ribbon.state = "morphing" => ~AllMorphed(ribbon))
  /\ [][(variant = "canvas" /\ UpdateStep /\ ribbon.state = "morphing") =>
          /\ ribbon'.state = IF AllMorphed(ribbon') THEN "holding" ELSE "morphing"
          /\ ribbon'.state = "holding" =>
               /\ clock' - ribbon.stateStartTime >=
                    (NumLines - 1) * StaggerDelay +
                      Max(CONFIG.eraseDuration, CONFIG.drawDuration)
               /\ ribbon'.lines = ribbon.newLines]_vars

\* C32 witness: a morph has just ended and the lines shown are those of the
\* direction drawn when it started
C32_Witness ==
  /\ variant = "canvas"
  /\ ribbon.state = "holding"
  /\ AllMorphed(ribbon)
  /\ ribbon.stateStartTime = clock
  /\ ribbon.lines = <<ribbon.direction>>
  /\ ribbon.oldLines = null /\ ribbon.newLines = null

\* drawProgress and morphProgress do not increase with the strand index
ProgressOrdered(r) ==
  \A i \in FillIndices :
    /\ Ge(r.lines[i].drawProgress, r.lines[i + 1].drawProgress)
    /\ Ge(r.lines[i].morphProgress, r.lines[i + 1].morphProgress)

\* the minProgress updateFillMeshes computes for fill patch i
MinProgress(r, i) ==
  MathMin(FillProgress(r.lines[i], r.phase), FillProgress(r.lines[i + 1], r.phase))

RECURSIVE Frames(_, _, _, _, _)
Frames(r, timestamp, d, n, direction) ==
  IF n = 0 THEN r
  ELSE Frames(CanvasUpdate(r, timestamp + d, direction), timestamp + d, d, n - 1,
              direction)

\* C34: on the canvas, Ribbon.time advances in proportion to elapsed time:
\* from any reachable state, n frames of d ms and one frame of n * d ms,
\* which cover the same elapsed time, leave Ribbon.time at the same value.
C34_TimeFollowsClock ==
  variant = "canvas" =>
    \A d \in CanvasDeltas, n \in 2 .. 3, direction \in Directions :
      (n * d \in CanvasDeltas /\ clock + n * d <= MaxClock) =>
        Frames(ribbon, clock, d, n, direction).time
          = Frames(ribbon, clock, n * d, 1, direction).time


----------------------------------------------------------------------------
(* The gradient scripts: the legacy animator and gradient.js.  step is     *)
(* kept in units of 1 / StepUnits, and a Math.random() result is one of    *)
(* the values k / RandomResolution, k in 0 .. RandomResolution - 1.        *)

NumColors == 5

StepUnits == 8

LegacySpeed == 2

GradientSpeed == 3

RandomResolution == 5

Random == 0 .. RandomResolution - 1

\* Math.floor(Math.random() * n)
RandomIndex(k, n) == (k * n) \div RandomResolution

\* the legacy target with an offset that may be 0
LegacyTargetAny(current, k) ==
  (current + RandomIndex(k, NumColors)) % NumColors

\* (colorIndices[t] + Math.floor(1 + Math.random() * (colors.length - 1)))
\*   % colors.length
LegacyTarget(current, k) ==
  (current + 1 + RandomIndex(k, NumColors - 1)) % NumColors

\* colorIndices[3]++ without the reset to 0
NextIndexUnbounded(i) == i + 1

\* colorIndices[3]++ followed by the reset to 0 at colors.length
NextIndex(i) == IF i + 1 >= NumColors THEN 0 ELSE i + 1

\* the legacy script as loaded
LegacyGradient ==
  [script |-> "legacy", step |-> 0, colorIndices |-> [t \in 0 .. 4 |-> t]]

\* gradient.js as loaded, startIndex = Math.floor(Math.random() * colors.length)
Gradient(k) ==
  [script |-> "gradient", step |-> 0,
   colorIndices |-> [t \in 0 .. 3 |-> (RandomIndex(k, NumColors) + t) % NumColors]]

\* step += gradientSpeed reaches 1
Wraps(g, gradientSpeed) == g.step + gradientSpeed >= StepUnits

\* the legacy updateGradient, k1 and k3 the two Math.random() results
updateGradientLegacy(g, k1, k3) ==
  IF Wraps(g, LegacySpeed)
    THEN [g EXCEPT
            !.step = (g.step + LegacySpeed) % StepUnits,
            !.colorIndices =
               [@ EXCEPT ![0] = g.colorIndices[1],
                         ![2] = g.colorIndices[3],
                         ![1] = LegacyTarget(g.colorIndices[1], k1),
                         ![3] = LegacyTarget(g.colorIndices[3], k3)]]
    ELSE [g EXCEPT !.step = g.step + LegacySpeed]

\* updateGradient of gradient.js
updateGradient(g) ==
  IF Wraps(g, GradientSpeed)
    THEN [g EXCEPT
            !.step = (g.step + GradientSpeed) % StepUnits,
            !.colorIndices =
               [@ EXCEPT ![0] = g.colorIndices[1],
                         ![1] = g.colorIndices[2],
                         ![2] = g.colorIndices[3],
                         ![3] = NextIndex(g.colorIndices[3])]]
    ELSE [g EXCEPT !.step = g.step + GradientSpeed]

\* a page that runs one of the gradient scripts and no ribbon
InitGradient ==
  /\ variant = "canvas"
  /\ CONFIG = DefaultConfig
  /\ generation = 0
  /\ clock = 0
  /\ host = Constructing
  /\ ribbon = NoRibbon
  /\ disposeCount = <<>>
  /\ groups = <<>>
  /\ scene = {}
  /\ geometry = NoGeometry
  /\ noise = NoNoise
  /\ gradient \in {LegacyGradient} \cup {Gradient(k) : k \in Random}

\* setInterval(updateGradient, 10) fires
UpdateGradientLegacy ==
  /\ gradient.script = "legacy"
  /\ \E k1 \in Random, k3 \in Random :
       gradient' = updateGradientLegacy(gradient, k1, k3)
  /\ UNCHANGED <<variant, CONFIG, ribbon, generation, clock, disposeCount,
                 scene, groups, geometry, host, noise>>

\* animateGradient runs on an animation frame
UpdateGradient ==
  /\ gradient.script = "gradient"
  /\ gradient' = updateGradient(gradient)
  /\ UNCHANGED <<variant, CONFIG, ribbon, generation, clock, disposeCount,
                 scene, groups, geometry, host, noise>>

NextGradient == UpdateGradientLegacy \/ UpdateGradient

SpecGradient == InitGradient /\ [][NextGradient]_vars

ColorIndices == 0 .. NumColors - 1

\* C35: in the legacy gradient animator, each time step wraps past 1 the
\* new target colour index of each side is a valid index into colors and
\* differs from that side's target before the wrap, which is the new start
\* colour index, for every random draw.
C35_LegacyTargetChanges ==
  [][(gradient.script = "legacy" /\ Wraps(gradient, LegacySpeed)) =>
       \A t \in {1, 3} :
         /\ gradient'.colorIndices[t] \in ColorIndices
         /\ gradient'.colorIndices[t] # gradient.colorIndices[t]
         /\ gradient'.colorIndices[t - 1] = gradient.colorIndices[t]
         /\ gradient'.colorIndices[t] # gradient'.colorIndices[t - 1]]_vars

\* C35 witness: the legacy animator after a wrap in which the two sides drew
\* different offsets
C35_Witness ==
  /\ gradient.script = "legacy"
  /\ gradient.colorIndices[0] = 1
  /\ gradient.colorIndices[2] = 3
  /\ gradient.colorIndices[1] = 0
  /\ gradient.colorIndices[3] = 4

\* C36: in gradient.js, after any number of updateGradient calls and for
\* every startIndex, 0 <= step < 1, the four colorIndices are valid indices
\* into colors and consecutive modulo colors.length, and at each wrap each
\* side's new start colour index is that side's target before the wrap.
C36_GradientIndices ==
  /\ [](gradient.script = "gradient" =>
          /\ gradient.step >= 0 /\ gradient.step < StepUnits
          /\ \A t \in 0 .. 3 : gradient.colorIndices[t] \in ColorIndices
          /\ \A t \in 0 .. 2 :
               gradient.colorIndices[t + 1] = (gradient.colorIndices[t] + 1) % NumColors)
  /\ [][(gradient.script = "gradient" /\ Wraps(gradient, GradientSpeed)) =>
          /\ gradient'.colorIndices[0] = gradient.colorIndices[1]
          /\ gradient'.colorIndices[2] = gradient.colorIndices[3]]_vars

\* C36 witness: gradient.js after the wrap on which colorIndices[3] went
\* back to 0
C36_Witness ==
  /\ gradient.script = "gradient"
  /\ gradient.colorIndices[3] = 0
  /\ gradient.colorIndices[0] = NumColors - 3
  /\ gradient.step > 0
  /\ gradient.step < GradientSpeed


----------------------------------------------------------------------------
(* SimplexNoise (ribbon.js).  The tables are scaled down: p has TableSize  *)
(* entries (256), perm and permMod12 twice as many, grad3 GradCount        *)
(* entries (12).  A table read outside the table gives undefined, which    *)
(* the index arithmetic turns into NaN; both are kept as NaN.              *)

TableSize == 4

GradCount == 3

\* [this.p[i], this.p[j]] = [this.p[j], this.p[i]]
Swap(p, i, j) == [p EXCEPT ![i] = p[j], ![j] = p[i]]

\* the shuffle loop from i down to 1; draws[i] is the value random() returns
\* in iteration i
RECURSIVE Shuffle(_, _, _)
Shuffle(p, i, draws) ==
  IF i = 0 THEN p
  ELSE Shuffle(Swap(p, i, RandomIndex(draws[i], i + 1)), i - 1, draws)

\* new SimplexNoise(seed)
SimplexNoise(draws) ==
  LET p == Shuffle([i \in 0 .. TableSize - 1 |-> i], TableSize - 1, draws)
      perm == [i \in 0 .. 2 * TableSize - 1 |-> p[i % TableSize]]
  IN  [constructed |-> TRUE,
       p |-> p,
       perm |-> perm,
       permMod12 |-> [i \in 0 .. 2 * TableSize - 1 |-> perm[i] % GradCount],
       called |-> FALSE,
       lookup |-> [table |-> {}, grad |-> {}]]

\* i without the mask
MaskNone(i) == i

\* i & 255
Mask(i) == i % TableSize

\* table[x]
Read(table, x) ==
  IF x.d = 1 /\ x.n \in DOMAIN table THEN Num(table[x.n]) ELSE NaN

\* a + x for an integer a and a table entry x
Index(a, x) == IF x.d = 1 THEN Num(a + x.n) ELSE NaN

\* the table indices behind one gi: this.permMod12[ii + o[1] +
\* this.perm[jj + o[2] + this.perm[kk + o[3]]]]
Corner(n, ii, jj, kk, o) ==
  LET first == Num(kk + o[3])
      second == Index(jj + o[2], Read(n.perm, first))
      third == Index(ii + o[1], Read(n.perm, second))
  IN  [table |-> {first, second, third}, grad |-> Read(n.permMod12, third)]

\* <<i1, j1, k1>> and <<i2, j2, k2>> of the six simplex orderings
Orderings ==
  { << <<1, 0, 0>>, <<1, 1, 0>> >>, << <<1, 0, 0>>, <<1, 0, 1>> >>,
    << <<0, 0, 1>>, <<1, 0, 1>> >>, << <<0, 0, 1>>, <<0, 1, 1>> >>,
    << <<0, 1, 0>>, <<0, 1, 1>> >>, << <<0, 1, 0>>, <<1, 1, 0>> >> }

\* noise3D for a point of lattice cell <<i, j, k>> with the given ordering:
\* the instance with the indices of its four gi lookups
noise3D(n, i, j, k, ordering) ==
  LET corners == {Corner(n, Mask(i), Mask(j), Mask(k), o) :
                    o \in {<<0, 0, 0>>, ordering[1], ordering[2], <<1, 1, 1>>}}
  IN  [n EXCEPT !.called = TRUE,
                !.lookup = [table |-> UNION {c.table : c \in corners},
                            grad |-> {c.grad : c \in corners}]]

\* lattice cell coordinates of the points looked up
LatticeCoordinates == {-1, 0, 1}

\* a page on which a SimplexNoise instance is about to be built
InitNoise ==
  /\ variant = "canvas"
  /\ CONFIG = DefaultConfig
  /\ generation = 0
  /\ clock = 0
  /\ host = Constructing
  /\ ribbon = NoRibbon
  /\ disposeCount = <<>>
  /\ groups = <<>>
  /\ scene = {}
  /\ geometry = NoGeometry
  /\ gradient = NoGradient
  /\ noise = NoNoise

\* this.noise = new SimplexNoise(), for every sequence random() can return
Construct ==
  /\ ~noise.constructed
  /\ \E draws \in [1 .. TableSize - 1 -> Random] : noise' = SimplexNoise(draws)
  /\ UNCHANGED <<variant, CONFIG, ribbon, generation, clock, disposeCount,
                 scene, groups, geometry, host, gradient>>

\* noise.noise3D(x, y, z)
Noise3D ==
  /\ noise.constructed
  /\ \E i \in LatticeCoordinates, j \in LatticeCoordinates,
        k \in LatticeCoordinates, ordering \in Orderings :
       noise' = noise3D(noise, i, j, k, ordering)
  /\ UNCHANGED <<variant, CONFIG, ribbon, generation, clock, disposeCount,
                 scene, groups, geometry, host, gradient>>

NextNoise == Construct \/ Noise3D

SpecNoise == InitNoise /\ [][NextNoise]_vars

\* C37: after construction p is a permutation of 0..255 for every seed,
\* and for every lattice cell each lookup noise3D makes uses an index
\* within the (doubled) perm / permMod12 tables and a gradient index
\* within grad3.
C37_NoiseTablesInRange ==
  noise.constructed =>
    /\ {noise.p[i] : i \in 0 .. TableSize - 1} = 0 .. TableSize - 1
    /\ \A x \in noise.lookup.table :
         x.d = 1 /\ x.n \in 0 .. 2 * TableSize - 1
    /\ \A g \in noise.lookup.grad :
         g.d = 1 /\ g.n \in 0 .. GradCount - 1

\* C37 witness: a shuffled table whose noise3D lookup for a cell with a
\* negative coordinate read the last entry of the doubled table
C37_Witness ==
  /\ noise.constructed
  /\ noise.called
  /\ noise.p # [i \in 0 .. TableSize - 1 |-> i]
  /\ Num(2 * TableSize - 1) \in noise.lookup.table
  /\ Cardinality(noise.lookup.grad) > 1

====
